---- MODULE Spec2Model ----
(***************************************************************************)
(* Event normalization pipeline of the ASU events loader                   *)
(* (src/database/load_data.py): parse_datetime, parse_location and the     *)
(* batch loader insert_events; the backend (src/backend/database.py):      *)
(* get_events_paginated, a client reading page after page, and the         *)
(* context managers get_db_connection and get_db_cursor; the scraper loop  *)
(* fetch_all_events (src/utils/scraper.py); generate_students and          *)
(* assign_officers of the student generator                                *)
(* (src/database/generate_students.py).                                    *)
(*                                                                         *)
(* Strings are sequences of lexical tokens: a markup tag, a whitespace     *)
(* character, an HTML entity, a date phrase, a clock phrase, a dash or a   *)
(* plain word.  Two tokens that are adjacent with no whitespace token in   *)
(* between are glued in the string ("5:30 PM-7:30 PM").                    *)
(***************************************************************************)
EXTENDS Integers, Sequences, FiniteSets, TLC

VARIABLES
    date_string,      \* parse_datetime: the argument
    dt_pc,            \* parse_datetime: "call" | "done" | "idle"
    dt_result,        \* parse_datetime: what the call returned and printed
    location_string,  \* parse_location: the argument
    loc_pc,           \* parse_location: "call" | "done" | "again" | "idle"
    loc_result,       \* parse_location: the returned triple
    loc_again,        \* parse_location: the triple returned for the returned text
    events,           \* insert_events: the argument, a list of event dicts
    ie_pc,            \* insert_events: "call" | "done" | "raised" | "idle"
    seen_ids,         \* insert_events: the local set seen_ids
    unique_events,    \* insert_events: the local list unique_events
    duplicates,       \* insert_events: the local counter duplicates
    parse_warnings,   \* insert_events: the local counter parse_warnings
    event_values,     \* insert_events: the rows given to execute_values
    printed_warnings, \* number of "Could not parse datetime" lines printed
    ie_return,        \* insert_events: the returned count
    ie_rolled_back,   \* insert_events: conn.rollback() was called (line 346)
    ie_run,           \* number of calls of insert_events made before this one
    db_events,        \* the committed rows of the events table
    attendees,        \* line 298: the attendees value of an event dict
    att_pc,           \* line 298: "call" | "done" | "raised" | "idle"
    att_count,        \* line 298: the attendee count put in the row
    cc_events,        \* two loaders: the list each connection was given
    cc_pc,            \* two loaders: "call" | "execute" | "done" | "idle"
    cc_rows,          \* two loaders: the rows each gives to execute_values
    cc_written,       \* two loaders: rows written by the open transaction
    cc_log,           \* two loaders: the row versions in the order written
    cc_return,        \* two loaders: the returned count
    cc_commits,       \* two loaders: the connections in the order they committed
    page,             \* get_events_paginated: the argument page
    limit,            \* get_events_paginated: the argument limit
    matching,         \* get_events_paginated: number of events the filters select
    pg_pc,            \* get_events_paginated: "call" | "done" | "idle"
    pg_result,        \* get_events_paginated: the query parameters and the result
    wk_table,         \* page walk: the committed rows of the events table
    wk_limit,         \* page walk: the argument limit of every call
    wk_page,          \* page walk: the argument page of the call in progress
    wk_pc,            \* page walk: "count" | "select" | "done" | "idle"
    wk_total,         \* page walk: what the count query of the call returned
    wk_total_pages,   \* page walk: total_pages of the response for page 1
    wk_pages,         \* page walk: the events lists of the responses so far
    wk_wrote,         \* page walk: the event_ids the concurrent writers wrote
    cur_pc,           \* get_db_cursor: "call" | "body" | "done" | "raised" | "idle"
    cur_calls,        \* get_db_cursor: the driver calls made, in order
    cur_conn,         \* get_db_cursor: the connection, "none" | "open" | "closed"
    cur_cursor,       \* get_db_cursor: the cursor, "none" | "open" | "closed"
    cur_tx,           \* get_db_cursor: the transaction of the connection
    cur_executed,     \* get_db_cursor: the statements the with-body executed
    cur_committed,    \* get_db_cursor: the statements the database committed
    cur_body,         \* get_db_cursor: the with-body, "none" | "running" | "returned" | "raised"
    cur_body_exc,     \* get_db_cursor: the exception the with-body raised
    cur_exc,          \* get_db_cursor: the exception the caller gets
    sc_max_events,    \* fetch_all_events: the argument max_events
    sc_pc,            \* fetch_all_events: "fetch" | "done" | "idle"
    sc_all_events,    \* fetch_all_events: the local list all_events
    sc_range_start,   \* fetch_all_events: the local range_start
    sc_consecutive_empty, \* fetch_all_events: the local consecutive_empty
    sc_requests,      \* fetch_all_events: the range_start of every request made
    sc_pages,         \* fetch_all_events: what every request returned
    of_org_members,   \* assign_officers: the argument, in the order of the dict
    of_pc,            \* assign_officers: "loop" | "insert" | "done" | "raised" | "idle"
    of_next,          \* assign_officers: position of the next item of the dict
    of_assignments,   \* assign_officers: the local list officer_assignments
    of_count,         \* assign_officers: the local dict student_officer_count
    of_log,           \* assign_officers: eligible members and officers of each org
    of_db,            \* assign_officers: the committed rows of student_officers
    of_return,        \* assign_officers: the returned count
    st_count,         \* generate_students: the argument count
    st_pc,            \* generate_students: "id" | "name" | "email" | "done" | "idle"
    st_students,      \* generate_students: the local list students
    st_used_ids,      \* generate_students: the local set used_ids
    st_used_emails,   \* generate_students: the local set used_emails
    st_student_id,    \* generate_students: the local student_id
    st_first_name,    \* generate_students: the local first_name
    st_last_name      \* generate_students: the local last_name

dt_vars == <<date_string, dt_pc, dt_result>>
loc_vars == <<location_string, loc_pc, loc_result, loc_again>>
ie_locals == <<events, ie_pc, seen_ids, unique_events, duplicates, parse_warnings,
               event_values, printed_warnings, ie_return, ie_rolled_back, ie_run>>
ie_vars == <<ie_locals, db_events>>
att_vars == <<attendees, att_pc, att_count>>
cc_vars == <<cc_events, cc_pc, cc_rows, cc_written, cc_log, cc_return, cc_commits>>
pg_vars == <<page, limit, matching, pg_pc, pg_result>>
wk_vars == <<wk_table, wk_limit, wk_page, wk_pc, wk_total, wk_total_pages,
             wk_pages, wk_wrote>>
\* the functions of the loader and the single query
old_vars == <<dt_vars, loc_vars, ie_vars, att_vars, cc_vars, pg_vars>>
\* the page walk
cur_vars == <<cur_pc, cur_calls, cur_conn, cur_cursor, cur_tx, cur_executed,
              cur_committed, cur_body, cur_body_exc, cur_exc>>
sc_vars == <<sc_max_events, sc_pc, sc_all_events, sc_range_start,
             sc_consecutive_empty, sc_requests, sc_pages>>
of_vars == <<of_org_members, of_pc, of_next, of_assignments, of_count, of_log,
             of_db, of_return>>
st_vars == <<st_count, st_pc, st_students, st_used_ids, st_used_emails,
             st_student_id, st_first_name, st_last_name>>
more_vars == <<wk_vars, cur_vars, sc_vars, of_vars, st_vars>>
vars == <<old_vars, more_vars>>
not_wk_vars == <<old_vars, cur_vars, sc_vars, of_vars, st_vars>>
not_cur_vars == <<old_vars, wk_vars, sc_vars, of_vars, st_vars>>
not_sc_vars == <<old_vars, wk_vars, cur_vars, of_vars, st_vars>>
not_of_vars == <<old_vars, wk_vars, cur_vars, sc_vars, st_vars>>
not_st_vars == <<old_vars, wk_vars, cur_vars, sc_vars, of_vars>>
\* what a call of one function leaves alone
not_dt_vars == <<loc_vars, ie_vars, att_vars, cc_vars, pg_vars, more_vars>>
not_loc_vars == <<dt_vars, ie_vars, att_vars, cc_vars, pg_vars, more_vars>>
not_ie_vars == <<dt_vars, loc_vars, att_vars, cc_vars, pg_vars, more_vars>>
not_att_vars == <<dt_vars, loc_vars, ie_vars, cc_vars, pg_vars, more_vars>>
not_cc_vars == <<dt_vars, loc_vars, ie_locals, att_vars, pg_vars, more_vars>>
not_pg_vars == <<dt_vars, loc_vars, ie_vars, att_vars, cc_vars, more_vars>>

(***************************************************************************)
(* Python values                                                           *)
(***************************************************************************)
\* None where a str is expected (no string of the model holds this token)
None == <<"None">>
\* None where a datetime is expected (datetimes are numbers >= 0)
NoneDT == 0 - 1

\* Python truthiness of an optional str: None and '' are falsy
Truthy(s) == s # None /\ s # <<>>

(***************************************************************************)
(* Bounds                                                                  *)
(***************************************************************************)
\* longest run of tokens put in front of the first date phrase
MaxLead == 1
\* longest list of events given to insert_events
MaxBatch == 3
\* longest attendees string
MaxDigits == 2
\* largest attendees number
MaxCount == 12
\* number of calls of insert_events on one list
MaxRuns == 2
\* largest page asked for
MaxPage == 3
\* largest of the small limits asked for
MaxSmallLimit == 3
\* largest of the small numbers of matching events
MaxMatching == 5

(***************************************************************************)
(* Lexicon of the date strings                                             *)
(***************************************************************************)
TagTokens == {"<p>", "</p>"}
EntityTokens == {"&nbsp;", "&ndash;"}
\* characters str.split() and the regex class \s treat as whitespace
WhitespaceTokens == {" ", "U+00A0"}
\* the regex class [-–—]
DashTokens == {"-", "U+2013", "U+2014"}
\* phrases matching [A-Za-z]+,\s+[A-Za-z]+\s+\d+,\s+\d{4}
DateWords == {"Mon, Nov 3, 2025", "Tue, Nov 4, 2025", "Mon, Nov 31, 2025"}
\* phrases matching \d+:\d+\s+[AP]M
TimeWords == {"12:15 AM", "9:00 AM", "5:30 PM", "13:30 PM"}
\* tokens whose last character is a letter
LetterTail == {"TBA"} \cup TimeWords

\* the fields strptime reads from a date phrase with "%a, %b %d, %Y"
DateFields(w) ==
    CASE w = "Mon, Nov 3, 2025"  -> [a |-> "Mon", b |-> 11, d |-> 3,  Y |-> 2025]
      [] w = "Tue, Nov 4, 2025"  -> [a |-> "Tue", b |-> 11, d |-> 4,  Y |-> 2025]
      [] w = "Mon, Nov 31, 2025" -> [a |-> "Mon", b |-> 11, d |-> 31, Y |-> 2025]

\* the fields strptime reads from a clock phrase with "%I:%M %p"
TimeFields(w) ==
    CASE w = "12:15 AM" -> [I |-> 12, M |-> 15, p |-> "AM"]
      [] w = "9:00 AM"  -> [I |-> 9,  M |-> 0,  p |-> "AM"]
      [] w = "5:30 PM"  -> [I |-> 5,  M |-> 30, p |-> "PM"]
      [] w = "13:30 PM" -> [I |-> 13, M |-> 30, p |-> "PM"]

(***************************************************************************)
(* Text cleaning, load_data.py:65-67                                       *)
(***************************************************************************)
\* re.sub(r'<[^>]+>', ' ', s): every tag becomes one space
StripTags(s) == [i \in 1..Len(s) |-> IF s[i] \in TagTokens THEN " " ELSE s[i]]

\* html.unescape: every entity becomes the character it names
UnescapeToken(t) ==
    CASE t = "&nbsp;"  -> "U+00A0"
      [] t = "&ndash;" -> "U+2013"
      [] OTHER         -> t

Unescape(s) == [i \in 1..Len(s) |-> UnescapeToken(s[i])]

\* ' '.join(s.split()): runs of whitespace become one space, none at the ends
RECURSIVE JoinSplit(_)
JoinSplit(s) ==
    IF s = <<>> THEN <<>>
    ELSE IF Head(s) \in WhitespaceTokens
         THEN LET rest == JoinSplit(Tail(s))
              IN  IF rest = <<>> \/ Head(rest) = " " THEN rest ELSE <<" ">> \o rest
         ELSE <<Head(s)>> \o JoinSplit(Tail(s))

TrimLeft(s) == IF s # <<>> /\ Head(s) = " " THEN Tail(s) ELSE s

CollapseWhitespace(s) == TrimLeft(JoinSplit(s))

CleanText(s) == CollapseWhitespace(Unescape(StripTags(s)))

(***************************************************************************)
(* datetime.strptime(s, "%a, %b %d, %Y %I:%M %p"), load_data.py:84         *)
(***************************************************************************)
WeekdayNames == {"Mon", "Tue", "Wed", "Thu", "Fri", "Sat", "Sun"}

IsLeap(Y) == (Y % 4 = 0 /\ Y % 100 # 0) \/ Y % 400 = 0

DaysInMonth(b, Y) ==
    IF b = 2 THEN (IF IsLeap(Y) THEN 29 ELSE 28)
    ELSE IF b \in {4, 6, 9, 11} THEN 30 ELSE 31

\* a datetime as a number that orders like the datetime: minutes on a
\* calendar in which every month has room for 31 days
DateTime(Y, b, d, H, M) == (((Y * 12 + (b - 1)) * 31 + (d - 1)) * 24 + H) * 60 + M

DateOf(dt) == dt \div (24 * 60)
MinuteOfDay(dt) == dt % (24 * 60)

\* a 12-hour conversion that forgets that 12 AM and 12 PM wrap to 0 and 12
Hour24NoWrap(I, p) == I + (IF p = "PM" THEN 12 ELSE 0)

\* %I with %p: 12 AM is hour 0, 12 PM is hour 12, other PM hours add 12
Hour24(I, p) == (I % 12) + (IF p = "PM" THEN 12 ELSE 0)

\* strptime of "<date_group> <time_word>"; ok = FALSE is a raised ValueError.
\* date_group is the text matched by the date group: one date phrase, or
\* the phrase with the letters glued in front of it, which %a rejects.
Strptime(date_group, time_word) ==
    IF Len(date_group) # 1 THEN [ok |-> FALSE, dt |-> NoneDT]
    ELSE LET D == DateFields(date_group[1])
             T == TimeFields(time_word)
         IN  IF /\ D.a \in WeekdayNames
                /\ D.b \in 1..12
                /\ D.d \in 1..DaysInMonth(D.b, D.Y)
                /\ T.I \in 1..12
                /\ T.M \in 0..59
             THEN [ok |-> TRUE,
                   dt |-> DateTime(D.Y, D.b, D.d, Hour24(T.I, T.p), T.M)]
             ELSE [ok |-> FALSE, dt |-> NoneDT]

(***************************************************************************)
(* The three patterns, load_data.py:75, 91, 107, as re.search applies      *)
(* them to the cleaned text: the leftmost position where the pattern fits  *)
(***************************************************************************)
TokenAt(text, i) == IF i \in 1..Len(text) THEN text[i] ELSE ""

\* (date)\s+(time) starting at token i
DateTimeAt(text, i) ==
    /\ TokenAt(text, i) \in DateWords
    /\ TokenAt(text, i + 1) = " "
    /\ TokenAt(text, i + 2) \in TimeWords

\* \s+[-–—]\s+ starting at token i
DashAt(text, i) ==
    /\ TokenAt(text, i) = " "
    /\ TokenAt(text, i + 1) \in DashTokens
    /\ TokenAt(text, i + 2) = " "

Pattern1At(text, i) ==
    DateTimeAt(text, i) /\ DashAt(text, i + 3) /\ TokenAt(text, i + 6) \in TimeWords

Pattern2At(text, i) ==
    DateTimeAt(text, i) /\ DashAt(text, i + 3) /\ DateTimeAt(text, i + 6)

Pattern3At(text, i) == DateTimeAt(text, i)

\* pattern1, pattern2 or pattern3 fitting at token i
PatternAt(p, text, i) ==
    CASE p = 1 -> Pattern1At(text, i)
      [] p = 2 -> Pattern2At(text, i)
      [] p = 3 -> Pattern3At(text, i)

\* re.search: the leftmost match position, 0 when the pattern fits nowhere
RECURSIVE SearchFrom(_, _, _)
SearchFrom(p, text, i) ==
    IF i > Len(text) THEN 0
    ELSE IF PatternAt(p, text, i) THEN i
    ELSE SearchFrom(p, text, i + 1)

Search1(text) == SearchFrom(1, text, 1)
Search2(text) == SearchFrom(2, text, 1)
Search3(text) == SearchFrom(3, text, 1)

\* the text of the date group of a match whose date phrase is token i:
\* [A-Za-z]+ also takes the letters glued in front of the weekday
DateGroup(text, i) ==
    IF i > 1 /\ text[i - 1] \in LetterTail
    THEN <<text[i - 1], text[i]>>
    ELSE <<text[i]>>

(***************************************************************************)
(* parse_datetime, load_data.py:49-120                                     *)
(***************************************************************************)
\* returning the cleaned text in place of the argument
OriginalCleaned(s) == CleanText(s)

\* load_data.py:63
Original(s) == s

\* a range parse that reads the end before the start
ParseRangeEndFirst(start_date, start_time, end_date, end_time) ==
    LET s == Strptime(start_date, start_time)
        e == Strptime(end_date, end_time)
    IN  IF ~e.ok THEN [start |-> NoneDT, end |-> NoneDT, raised |-> TRUE]
        ELSE IF ~s.ok THEN [start |-> NoneDT, end |-> e.dt, raised |-> TRUE]
        ELSE [start |-> s.dt, end |-> e.dt, raised |-> FALSE]

\* the two strptime calls of a range pattern inside the try block: the
\* first that raises ends the block, what was assigned before stays
ParseRange(start_date, start_time, end_date, end_time) ==
    LET s == Strptime(start_date, start_time)
        e == Strptime(end_date, end_time)
    IN  IF ~s.ok THEN [start |-> NoneDT, end |-> NoneDT, raised |-> TRUE]
        ELSE IF ~e.ok THEN [start |-> s.dt, end |-> NoneDT, raised |-> TRUE]
        ELSE [start |-> s.dt, end |-> e.dt, raised |-> FALSE]

\* the single strptime call of the start-only pattern
ParseStart(start_date, start_time) ==
    LET s == Strptime(start_date, start_time)
    IN  IF ~s.ok THEN [start |-> NoneDT, end |-> NoneDT, raised |-> TRUE]
        ELSE [start |-> s.dt, end |-> NoneDT, raised |-> FALSE]

\* a try block that looks for the start-only pattern before the ranges
TryPatternsStartOnlyFirst(text) ==
    LET m1 == Search1(text)
        m2 == Search2(text)
        m3 == Search3(text)
    IN  IF m3 # 0
        THEN [pattern |-> 3] @@ ParseStart(DateGroup(text, m3), text[m3 + 2])
        ELSE IF m1 # 0
        THEN [pattern |-> 1] @@
             ParseRange(DateGroup(text, m1), text[m1 + 2],
                        DateGroup(text, m1), text[m1 + 6])
        ELSE IF m2 # 0
        THEN [pattern |-> 2] @@
             ParseRange(DateGroup(text, m2), text[m2 + 2],
                        <<text[m2 + 6]>>, text[m2 + 8])
        ELSE [pattern |-> 0, start |-> NoneDT, end |-> NoneDT, raised |-> FALSE]

\* the try block, load_data.py:72-118: which pattern was used (0 = none)
\* and what it left in start_dt and end_dt
TryPatterns(text) ==
    LET m1 == Search1(text)
        m2 == Search2(text)
        m3 == Search3(text)
    IN  IF m1 # 0
        THEN [pattern |-> 1] @@
             ParseRange(DateGroup(text, m1), text[m1 + 2],
                        DateGroup(text, m1), text[m1 + 6])
        ELSE IF m2 # 0
        THEN [pattern |-> 2] @@
             ParseRange(DateGroup(text, m2), text[m2 + 2],
                        <<text[m2 + 6]>>, text[m2 + 8])
        ELSE IF m3 # 0
        THEN [pattern |-> 3] @@ ParseStart(DateGroup(text, m3), text[m3 + 2])
        ELSE [pattern |-> 0, start |-> NoneDT, end |-> NoneDT, raised |-> FALSE]

\* the returned triple, plus whether the warning was printed (line 118)
\* and which pattern matched
parse_datetime(s) ==
    IF ~Truthy(s)
    THEN [start |-> NoneDT, end |-> NoneDT, original |-> None,
          warned |-> FALSE, pattern |-> 0]
    ELSE LET r == TryPatterns(CleanText(s))
         IN  [start |-> r.start, end |-> r.end, original |-> Original(s),
              warned |-> r.raised, pattern |-> r.pattern]

(***************************************************************************)
(* Lexicon of the location strings                                         *)
(***************************************************************************)
\* tags that carry an href attribute, and the value of the attribute
AnchorTokens == {"<a href='https://asu.zoom.us/j/1'>", "<a href='https://teams.live/2'>"}
LocTagTokens == {"<div>", "</div>", "</a>"} \cup AnchorTokens

HrefOf(t) ==
    CASE t = "<a href='https://asu.zoom.us/j/1'>" -> "https://asu.zoom.us/j/1"
      [] t = "<a href='https://teams.live/2'>"    -> "https://teams.live/2"

\* str.lower() of one token
LowerToken(t) ==
    CASE t \in {"Online", "ONLINE"} -> "online"
      [] t \in {"Event", "EVENT"}   -> "event"
      [] t \in {"TBD", "Tbd"}       -> "tbd"
      [] t \in {"Zoom", "ZOOM"}     -> "zoom"
      [] t \in {"Link", "LINK"}     -> "link"
      [] t = "GWC"                  -> "gwc"
      [] t = "Join"                 -> "join"
      [] OTHER                      -> t

Lower(s) == [i \in 1..Len(s) |-> LowerToken(s[i])]

(***************************************************************************)
(* parse_location, load_data.py:123-173                                    *)
(***************************************************************************)
\* re.findall(r'href=["\']([^"\']+)["\']', s): the href values, in order
RECURSIVE FindHrefs(_)
FindHrefs(s) ==
    IF s = <<>> THEN <<>>
    ELSE IF Head(s) \in AnchorTokens
         THEN <<HrefOf(Head(s))>> \o FindHrefs(Tail(s))
         ELSE FindHrefs(Tail(s))

\* a variant of line 145 that takes the last href, urls[-1]
FirstLinkLast(s) ==
    LET urls == FindHrefs(s)
    IN  IF urls # <<>> THEN <<urls[Len(urls)]>> ELSE None

\* load_data.py:145: urls[0] if urls else None; a link is a one-token string
FirstLink(s) ==
    LET urls == FindHrefs(s)
    IN  IF urls # <<>> THEN <<urls[1]>> ELSE None

\* re.sub(r'<[^>]+>', ' ', s), load_data.py:148
StripLocTags(s) == [i \in 1..Len(s) |-> IF s[i] \in LocTagTokens THEN " " ELSE s[i]]

\* str.strip()
RECURSIVE TrimRight(_)
TrimRight(s) ==
    IF s # <<>> /\ s[Len(s)] \in WhitespaceTokens
    THEN TrimRight(SubSeq(s, 1, Len(s) - 1))
    ELSE s

RECURSIVE TrimLeftAll(_)
TrimLeftAll(s) ==
    IF s # <<>> /\ Head(s) \in WhitespaceTokens THEN TrimLeftAll(Tail(s)) ELSE s

Strip(s) == TrimRight(TrimLeftAll(s))

\* a variant of line 153 whose pattern is zoom\s+link, without the blanks
\* around it
ZoomLinkLenNoBlanks(s) ==
    IF /\ LowerToken(TokenAt(s, 1)) = "zoom"
       /\ TokenAt(s, 2) \in WhitespaceTokens
       /\ LowerToken(TokenAt(s, 3)) = "link"
    THEN 3
    ELSE 0

\* the length of a match of \s*zoom\s+link\s* (ignoring case) at the start
\* of s, 0 when there is none
ZoomLinkLen(s) ==
    LET lead == IF TokenAt(s, 1) \in WhitespaceTokens THEN 1 ELSE 0
    IN  IF /\ LowerToken(TokenAt(s, lead + 1)) = "zoom"
           /\ TokenAt(s, lead + 2) \in WhitespaceTokens
           /\ LowerToken(TokenAt(s, lead + 3)) = "link"
        THEN lead + 3 + (IF TokenAt(s, lead + 4) \in WhitespaceTokens THEN 1 ELSE 0)
        ELSE 0

\* re.sub(r'\s*zoom\s+link\s*', '', s, flags=re.IGNORECASE), load_data.py:153
RECURSIVE RemoveZoomLink(_)
RemoveZoomLink(s) ==
    IF s = <<>> THEN <<>>
    ELSE LET k == ZoomLinkLen(s)
         IN  IF k > 0
             THEN RemoveZoomLink(SubSeq(s, k + 1, Len(s)))
             ELSE <<Head(s)>> \o RemoveZoomLink(Tail(s))

\* load_data.py:148-154: the cleaned location text
CleanLocation(s) ==
    Strip(RemoveZoomLink(Strip(CollapseWhitespace(Unescape(StripLocTags(s))))))

\* a variant of line 157 whose placeholder list lacks 'tbd'
HasPhysicalLocationNoTbd(text) ==
    text # <<>> /\ Lower(text) \notin {<<"online">>, <<"online", " ", "event">>, <<>>}

\* load_data.py:157
HasPhysicalLocation(text) ==
    /\ text # <<>>
    /\ Lower(text) \notin {<<"online">>, <<"online", " ", "event">>, <<"tbd">>, <<>>}

\* 'online' in text.lower()
ContainsOnline(text) == \E i \in 1..Len(text) : LowerToken(text[i]) = "online"

\* a variant of line 162 that looks at the link only
EventTypeLinkOnly(text, online_link) ==
    IF HasPhysicalLocation(text) /\ online_link # None THEN "hybrid"
    ELSE IF online_link # None THEN "online"
    ELSE "in_person"

\* load_data.py:160-167: the event type
EventType(text, online_link) ==
    IF HasPhysicalLocation(text) /\ online_link # None THEN "hybrid"
    ELSE IF online_link # None \/ (text # <<>> /\ ContainsOnline(text)) THEN "online"
    ELSE "in_person"

\* load_data.py:164-165: the text after the type was decided
TextAfterType(text, online_link, event_type) ==
    IF /\ event_type = "online"
       /\ online_link = None
       /\ Lower(text) \in {<<"online">>, <<"online", " ", "event">>}
    THEN <<"Online">>
    ELSE text

\* a variant of line 170 that compares the text without lower()
CleanUpEmptyCaseSensitive(text, event_type) ==
    IF text = <<>> \/ text = <<"online", " ", "event">>
    THEN (IF event_type = "online" THEN <<"Online">> ELSE None)
    ELSE text

\* load_data.py:170-171: the clean-up of an empty or placeholder text
CleanUpEmpty(text, event_type) ==
    IF text = <<>> \/ Lower(text) = <<"online", " ", "event">>
    THEN (IF event_type = "online" THEN <<"Online">> ELSE None)
    ELSE text

parse_location(s) ==
    IF ~Truthy(s)
    THEN [location_text |-> None, online_link |-> None, event_type |-> "in_person"]
    ELSE LET online_link == FirstLink(s)
             text == CleanLocation(s)
             event_type == EventType(text, online_link)
         IN  [location_text |->
                  CleanUpEmpty(TextAfterType(text, online_link, event_type), event_type),
              online_link |-> online_link,
              event_type |-> event_type]

(***************************************************************************)
(* insert_events, load_data.py:244-350                                     *)
(***************************************************************************)
\* an event_id is a string; the key may be missing from the dict, or null
AbsentId == "<absent>"
NoneId == "<None>"
\* a str field whose key is missing from the dict
Absent == <<"<absent>">>

\* dict.get(key): None when the key is missing
GetId(v) == IF v = AbsentId THEN NoneId ELSE v
Get(v) == IF v = Absent THEN None ELSE v

\* truthiness of event.get('event_id')
IdTruthy(id) == id # NoneId /\ id # ""

\* a loop body that lets a later record replace the one kept for its id
DedupStepLastWins(acc, event) ==
    LET event_id == GetId(event.event_id)
        kept == acc.unique_events
    IN  IF IdTruthy(event_id) /\ event_id \notin acc.seen_ids
        THEN [seen_ids |-> acc.seen_ids \cup {event_id},
              unique_events |-> Append(kept, event),
              duplicates |-> acc.duplicates]
        ELSE [seen_ids |-> acc.seen_ids,
              unique_events |->
                  [k \in 1..Len(kept) |->
                      IF GetId(kept[k].event_id) = event_id THEN event ELSE kept[k]],
              duplicates |-> acc.duplicates + 1]

\* a loop body that does not test the event_id for truth
DedupStepNoIdTest(acc, event) ==
    LET event_id == GetId(event.event_id)
    IN  IF event_id \notin acc.seen_ids
        THEN [seen_ids |-> acc.seen_ids \cup {event_id},
              unique_events |-> Append(acc.unique_events, event),
              duplicates |-> acc.duplicates]
        ELSE [seen_ids |-> acc.seen_ids,
              unique_events |-> acc.unique_events,
              duplicates |-> acc.duplicates + 1]

\* one iteration of the loop at load_data.py:266-272
DedupStep(acc, event) ==
    LET event_id == GetId(event.event_id)
    IN  IF IdTruthy(event_id) /\ event_id \notin acc.seen_ids
        THEN [seen_ids |-> acc.seen_ids \cup {event_id},
              unique_events |-> Append(acc.unique_events, event),
              duplicates |-> acc.duplicates]
        ELSE [seen_ids |-> acc.seen_ids,
              unique_events |-> acc.unique_events,
              duplicates |-> acc.duplicates + 1]

\* load_data.py:261-272: the loop over the whole list
RECURSIVE DedupFrom(_, _)
DedupFrom(acc, evs) ==
    IF evs = <<>> THEN acc ELSE DedupFrom(DedupStep(acc, Head(evs)), Tail(evs))

\* a loop whose seen_ids is not emptied at the start of a call
DedupLoopKeepsSeen(evs) ==
    DedupFrom([seen_ids |-> seen_ids, unique_events |-> <<>>, duplicates |-> 0], evs)

DedupLoop(evs) ==
    DedupFrom([seen_ids |-> {}, unique_events |-> <<>>, duplicates |-> 0], evs)

\* the attendees value of an event dict: the key is missing, None, an int
\* or a str (a sequence of characters)
AttAbsent == [kind |-> "absent", n |-> 0, s |-> <<>>]
AttNone == [kind |-> "None", n |-> 0, s |-> <<>>]
AttInt(n) == [kind |-> "int", n |-> n, s |-> <<>>]
AttStr(s) == [kind |-> "str", n |-> 0, s |-> s]

\* event.get('attendees') and event.get('attendees', 0)
GetAtt(v) == IF v = AttAbsent THEN AttNone ELSE v
GetAttOr0(v) == IF v = AttAbsent THEN AttInt(0) ELSE v

\* the characters of an attendees string: ASCII digits, the Arabic-Indic
\* digit three (a decimal digit), superscript two (a digit that is no
\* decimal digit), a letter, a minus sign
DecimalChars == {"0", "1", "7", "U+0663"}
DigitChars == DecimalChars \cup {"U+00B2"}
AttChars == DigitChars \cup {"a", "-"}

DecimalValue(c) ==
    CASE c = "0" -> 0
      [] c = "1" -> 1
      [] c = "7" -> 7
      [] c = "U+0663" -> 3

\* truthiness of an attendees value: None, 0 and '' are falsy
AttTruthy(v) ==
    \/ v.kind = "int" /\ v.n # 0
    \/ v.kind = "str" /\ v.s # <<>>

\* str(v).isdigit(): the text of an int is its decimal digits, after a
\* minus sign when it is negative; every character of a str is a digit
StrIsDigit(v) ==
    \/ v.kind = "int" /\ v.n >= 0
    \/ v.kind = "str" /\ v.s # <<>> /\ \A i \in 1..Len(v.s) : v.s[i] \in DigitChars

\* the value of a run of decimal digits
RECURSIVE DecimalOf(_)
DecimalOf(s) ==
    IF s = <<>> THEN 0
    ELSE DecimalOf(SubSeq(s, 1, Len(s) - 1)) * 10 + DecimalValue(s[Len(s)])

\* int(v): ok is FALSE when int raises ValueError; a str is an optional
\* minus sign and decimal digits
IntOf(v) ==
    IF v.kind = "int" THEN [ok |-> TRUE, n |-> v.n]
    ELSE LET neg == v.s # <<>> /\ Head(v.s) = "-"
             body == IF neg THEN Tail(v.s) ELSE v.s
         IN  IF body # <<>> /\ \A i \in 1..Len(body) : body[i] \in DecimalChars
             THEN [ok |-> TRUE, n |-> IF neg THEN 0 - DecimalOf(body) ELSE DecimalOf(body)]
             ELSE [ok |-> FALSE, n |-> 0]

\* load_data.py:298: the attendees column; ok is FALSE when the expression
\* raises
AttendeeCount(v) ==
    IF AttTruthy(GetAtt(v)) /\ StrIsDigit(GetAtt(v))
    THEN IntOf(GetAttOr0(v))
    ELSE [ok |-> TRUE, n |-> 0]

\* load_data.py:280-306: the row built for one surviving event (the columns
\* that insert_events computes; the others are copied from the dict)
NormalizeRow(event) ==
    LET d == parse_datetime(Get(event.dates))
        l == parse_location(Get(event.location))
    IN  [event_id |-> GetId(event.event_id),
         event_start_datetime |-> d.start,
         event_end_datetime |-> d.end,
         original_date_string |-> d.original,
         location_text |-> l.location_text,
         online_link |-> l.online_link,
         event_type |-> l.event_type,
         attendees |-> AttendeeCount(event.attendees).n]

\* building the row of this event raises (line 298)
RowRaises(event) == ~AttendeeCount(event.attendees).ok

\* the position of the first event whose row raises, 0 when there is none
FirstRaise(evs) ==
    IF \E k \in 1..Len(evs) : RowRaises(evs[k])
    THEN CHOOSE k \in 1..Len(evs) :
             RowRaises(evs[k]) /\ \A j \in 1..(k - 1) : ~RowRaises(evs[j])
    ELSE 0

\* load_data.py:277-306
NormalizeRows(evs) == [k \in 1..Len(evs) |-> NormalizeRow(evs[k])]

\* the warning lines parse_datetime prints while the rows are built
RECURSIVE WarningsPrinted(_)
WarningsPrinted(evs) ==
    IF evs = <<>> THEN 0
    ELSE (IF parse_datetime(Get(Head(evs).dates)).warned THEN 1 ELSE 0)
         + WarningsPrinted(Tail(evs))

\* an upsert whose SET list lacks event_type: the stored row keeps its own
UpsertForgetsColumn(db, rows) ==
    {r \in db : \A k \in 1..Len(rows) : rows[k].event_id # r.event_id}
        \cup {(IF \E r \in db : r.event_id = rows[k].event_id
                THEN [rows[k] EXCEPT !.event_type =
                         (CHOOSE r \in db : r.event_id = rows[k].event_id).event_type]
                ELSE rows[k]) : k \in 1..Len(rows)}

\* INSERT ... ON CONFLICT (event_id) DO UPDATE SET every column,
\* load_data.py:308-338: a row replaces the stored row of its event_id
Upsert(db, rows) ==
    {r \in db : \A k \in 1..Len(rows) : rows[k].event_id # r.event_id}
        \cup {rows[k] : k \in 1..Len(rows)}

\* a rollback on a connection in autocommit mode: the rows the statement
\* wrote before the error stay
RolledBackKeepsWritten(db, written) == Upsert(db, written)

\* conn.rollback(), load_data.py:346: the rows the transaction wrote before
\* the error are discarded
RolledBack(db, written) == db

(***************************************************************************)
(* Date strings given to parse_datetime                                    *)
(***************************************************************************)
\* every sequence over S of length at most n
SeqsUpTo(S, n) == UNION {[1..k -> S] : k \in 0..n}

OneOf(S) == {<<x>> : x \in S}
Opt(S) == {<<>>} \cup S

\* what comes before the first date phrase
LeadTokens == {"<p>", "TBA", " "}
Leads == SeqsUpTo(LeadTokens, MaxLead)
\* between the date and the start time: a space, markup, an entity, nothing
DateTimeSeps == {<<" ">>, <<"</p>", "<p>">>, <<"&nbsp;">>, <<>>}
\* the dash of a range: spaced, as an entity, glued to both times
DashClauses == {<<" ", "-", " ">>, <<" ", "&ndash;", " ">>, <<"-">>}
EndDates == {<<"Tue, Nov 4, 2025", " ">>, <<"Mon, Nov 31, 2025", " ">>}
\* what follows: nothing, or one more dash and clock time
Trailers == {<<>>, <<"</p>", "-", " ", "5:30 PM">>}

DateInputs ==
    {None, <<>>, <<"TBA">>, <<"<p>", "</p>">>} \cup
    { lead \o <<d1>> \o sep \o t1 \o dash \o d2 \o t2 \o trail :
        lead \in Leads, d1 \in DateWords, sep \in DateTimeSeps,
        t1 \in Opt(OneOf(TimeWords)), dash \in Opt(DashClauses),
        d2 \in Opt(EndDates), t2 \in Opt(OneOf(TimeWords)),
        trail \in Trailers }

(***************************************************************************)
(* Specification of parse_datetime over DateInputs                         *)
(***************************************************************************)
NoResult ==
    [start |-> NoneDT, end |-> NoneDT, original |-> None,
     warned |-> FALSE, pattern |-> 0]

NoLocResult == [location_text |-> None, online_link |-> None, event_type |-> "in_person"]

\* the parts of the state a specification does not use stay as they are
DTIdle == date_string = None /\ dt_pc = "idle" /\ dt_result = NoResult
LocIdle ==
    /\ location_string = None /\ loc_pc = "idle"
    /\ loc_result = NoLocResult /\ loc_again = NoLocResult

IEIdle ==
    /\ events = <<>> /\ ie_pc = "idle" /\ seen_ids = {} /\ unique_events = <<>>
    /\ duplicates = 0 /\ parse_warnings = 0 /\ event_values = <<>>
    /\ printed_warnings = 0 /\ ie_return = 0 /\ ie_rolled_back = FALSE
    /\ ie_run = 0 /\ db_events = {}
AttIdle == attendees = AttNone /\ att_pc = "idle" /\ att_count = 0

Conns == {"A", "B"}
CCIdle ==
    /\ cc_events = [c \in Conns |-> <<>>] /\ cc_pc = [c \in Conns |-> "idle"]
    /\ cc_rows = [c \in Conns |-> <<>>] /\ cc_written = [c \in Conns |-> 0]
    /\ cc_log = <<>> /\ cc_return = [c \in Conns |-> 0] /\ cc_commits = <<>>

NoPageResult ==
    [events |-> <<>>, sql_limit |-> 0, sql_offset |-> 0, current_page |-> 0,
     total_pages |-> 0, total_events |-> 0, limit |-> 0, has_more |-> FALSE]
PageIdle ==
    /\ page = 0 /\ limit = 0 /\ matching = 0 /\ pg_pc = "idle"
    /\ pg_result = NoPageResult

\* the events table of the page walk: event_ids and what a row holds
WalkIds == {101, 102, 103}
AbsentRow == [present |-> FALSE, start |-> NoneDT, matches |-> FALSE]
WalkIdle ==
    /\ wk_table = [i \in WalkIds |-> AbsentRow] /\ wk_limit = 0 /\ wk_page = 0
    /\ wk_pc = "idle" /\ wk_total = 0 /\ wk_total_pages = 0 /\ wk_pages = <<>>
    /\ wk_wrote = {}

\* no exception
NoExc == "none"
CursorIdle ==
    /\ cur_pc = "idle" /\ cur_calls = <<>> /\ cur_conn = "none"
    /\ cur_cursor = "none" /\ cur_tx = "none" /\ cur_executed = <<>>
    /\ cur_committed = <<>> /\ cur_body = "none" /\ cur_body_exc = NoExc
    /\ cur_exc = NoExc

\* max_events=None (a count is a number >= 0)
NoneMax == 0 - 1
ScrapeIdle ==
    /\ sc_max_events = NoneMax /\ sc_pc = "idle" /\ sc_all_events = <<>>
    /\ sc_range_start = 0 /\ sc_consecutive_empty = 0 /\ sc_requests = <<>>
    /\ sc_pages = <<>>

\* the student_ids of the member lists
Students == {"s1", "s2", "s3", "s4", "s5", "s6", "s7", "s8"}
OfficersIdle ==
    /\ of_org_members = <<>> /\ of_pc = "idle" /\ of_next = 0
    /\ of_assignments = <<>> /\ of_count = [m \in Students |-> 0]
    /\ of_log = <<>> /\ of_db = {} /\ of_return = 0

StudentsIdle ==
    /\ st_count = 0 /\ st_pc = "idle" /\ st_students = <<>> /\ st_used_ids = {}
    /\ st_used_emails = {} /\ st_student_id = <<>> /\ st_first_name = ""
    /\ st_last_name = ""

OldIdle == DTIdle /\ LocIdle /\ IEIdle /\ AttIdle /\ CCIdle /\ PageIdle
MoreIdle ==
    WalkIdle /\ CursorIdle /\ ScrapeIdle /\ OfficersIdle /\ StudentsIdle

InitDT ==
    /\ date_string \in DateInputs
    /\ dt_pc = "call"
    /\ dt_result = NoResult
    /\ LocIdle
    /\ IEIdle
    /\ AttIdle
    /\ CCIdle
    /\ PageIdle
    /\ MoreIdle

\* load_data.py:60-61
ParseDatetimeEmpty ==
    /\ dt_pc = "call"
    /\ ~Truthy(date_string)
    /\ dt_result' = parse_datetime(date_string)
    /\ dt_pc' = "done"
    /\ UNCHANGED <<date_string, not_dt_vars>>

\* load_data.py:63-120
ParseDatetime ==
    /\ dt_pc = "call"
    /\ Truthy(date_string)
    /\ dt_result' = parse_datetime(date_string)
    /\ dt_pc' = "done"
    /\ UNCHANGED <<date_string, not_dt_vars>>

NextDT == ParseDatetimeEmpty \/ ParseDatetime

SpecDT == InitDT /\ [][NextDT]_vars

(***************************************************************************)
(* Properties of parse_datetime                                            *)
(***************************************************************************)
DTDone == dt_pc = "done"
DTText == CleanText(date_string)

\* the clock phrases of the model's lexicon, from the earliest in the day
\* to the latest
ClockOrder == <<"12:15 AM", "9:00 AM", "5:30 PM">>
ClockRank(w) == CHOOSE k \in 1..Len(ClockOrder) : ClockOrder[k] = w

\* C4: parse_datetime never returns an end timestamp without a start
\* timestamp, on any path.
C4_EndImpliesStart ==
    DTDone => (dt_result.start = NoneDT => dt_result.end = NoneDT)

\* a range pattern matched, the start failed to parse and the end text
\* alone would have parsed
C4_Witness ==
    /\ DTDone
    /\ dt_result.pattern = 1
    /\ dt_result.start = NoneDT
    /\ LET m == Search1(DTText)
       IN  /\ ~Strptime(DateGroup(DTText, m), DTText[m + 2]).ok
           /\ Strptime(DateGroup(DTText, m), DTText[m + 6]).ok

\* C5: when a pattern matched and a matched substring failed to parse,
\* the result is (null, null, original): neither start nor end is set.
C5_FailedParseClearsBoth ==
    (DTDone /\ dt_result.pattern # 0 /\ dt_result.warned)
        => (dt_result.start = NoneDT /\ dt_result.end = NoneDT)

\* C6: the third component is the argument unchanged for every non-empty
\* argument, and the result is (null, null, null) for a null or empty one.
C6_OriginalVerbatim ==
    DTDone =>
        IF Truthy(date_string)
        THEN dt_result.original = date_string
        ELSE /\ dt_result.start = NoneDT
             /\ dt_result.end = NoneDT
             /\ dt_result.original = None

\* a string with markup that parsed as a same-day range
C6_Witness ==
    /\ DTDone
    /\ Truthy(date_string)
    /\ \E i \in 1..Len(date_string) : date_string[i] \in TagTokens
    /\ DTText # date_string
    /\ dt_result.pattern = 1
    /\ dt_result.end # NoneDT
    /\ dt_result.original = date_string

\* a same-day range whose date and both clock times parsed
SameDayParsed == DTDone /\ dt_result.pattern = 1 /\ ~dt_result.warned

\* C7 as stated: a same-day range with valid date and times gives start
\* and end on one calendar date and start strictly earlier than end.
C7_SameDayStartBeforeEnd ==
    SameDayParsed =>
        /\ DateOf(dt_result.start) = DateOf(dt_result.end)
        /\ dt_result.start < dt_result.end

\* C7 amended: start and end are on one calendar date, and start is
\* earlier than end exactly when the start clock time is earlier in the
\* day than the end clock time.
C7_SameDayClockOrder ==
    SameDayParsed =>
        LET m == Search1(DTText)
        IN  /\ DateOf(dt_result.start) = DateOf(dt_result.end)
            /\ (dt_result.start < dt_result.end
                    <=> ClockRank(DTText[m + 2]) < ClockRank(DTText[m + 6]))
            /\ (dt_result.start = dt_result.end
                    <=> DTText[m + 2] = DTText[m + 6])

\* a PM start with an AM end: end is returned before start
C7_Witness ==
    /\ SameDayParsed
    /\ dt_result.end < dt_result.start
    /\ LET m == Search1(DTText)
       IN  TimeFields(DTText[m + 2]).p = "PM" /\ TimeFields(DTText[m + 6]).p = "AM"

\* the positions of a text where each pattern fits
SameDayAt(text) == {i \in 1..Len(text) : Pattern1At(text, i)}
CrossDayAt(text) == {i \in 1..Len(text) : Pattern2At(text, i)}
StartOnlyAt(text) == {i \in 1..Len(text) : Pattern3At(text, i)}
Leftmost(S) == CHOOSE i \in S : \A j \in S : i <= j

\* start and end come from these four matched substrings and no others:
\* each is the parse of its own substrings or absent, and both are set
\* when both parse
FromRange(start_date, start_time, end_date, end_time) ==
    LET s == Strptime(start_date, start_time)
        e == Strptime(end_date, end_time)
    IN  /\ dt_result.start \in {NoneDT, s.dt}
        /\ dt_result.end \in {NoneDT, e.dt}
        /\ (s.ok /\ e.ok) => (dt_result.start = s.dt /\ dt_result.end = e.dt)

\* the patterns are tried in the order same-day, cross-day, start-only and
\* the result is the one of the first that fits anywhere in the text
FirstMatchWins ==
    (DTDone /\ Truthy(date_string)) =>
        LET text == DTText
            P1 == SameDayAt(text)
            P2 == CrossDayAt(text)
            P3 == StartOnlyAt(text)
        IN  IF P1 # {}
            THEN LET i == Leftmost(P1)
                 IN  FromRange(DateGroup(text, i), text[i + 2],
                               DateGroup(text, i), text[i + 6])
            ELSE IF P2 # {}
            THEN LET i == Leftmost(P2)
                 IN  FromRange(DateGroup(text, i), text[i + 2],
                               <<text[i + 6]>>, text[i + 8])
            ELSE IF P3 # {}
            THEN LET i == Leftmost(P3)
                 IN  /\ dt_result.start =
                            Strptime(DateGroup(text, i), text[i + 2]).dt
                     /\ dt_result.end = NoneDT
            ELSE dt_result.start = NoneDT /\ dt_result.end = NoneDT

\* a result with a start and no end, reached without a parse error
StartOnlyResult ==
    /\ DTDone
    /\ ~dt_result.warned
    /\ dt_result.start # NoneDT
    /\ dt_result.end = NoneDT

HasDash(text) == \E i \in 1..Len(text) : text[i] \in DashTokens

C8_WitnessDash == StartOnlyResult /\ dt_result.pattern = 3 /\ HasDash(DTText)

(***************************************************************************)
(* Location strings given to parse_location                                *)
(***************************************************************************)
LocLeadTokens == {"<div>", " "}
LocLeads == SeqsUpTo(LocLeadTokens, MaxLead)
\* the text part: empty, a room, the placeholders in several cases, a room
\* next to the word online, blank characters
LocTexts ==
    {<<>>, <<"GWC">>, <<"GWC", " ", "487">>, <<"Online">>, <<"ONLINE">>,
     <<"online", " ", "event">>, <<"Online", "&nbsp;", "Event">>,
     <<"TBD">>, <<"tbd">>, <<"Online", " ", "GWC">>, <<"&nbsp;">>,
     <<"GWC", " ", "Zoom", " ", "link", " ", "487">>}
\* the link part: none, anchors with and without the "Zoom link" label,
\* two anchors, the label without an anchor
LocLinks ==
    {<<>>,
     <<"<a href='https://asu.zoom.us/j/1'>", "Zoom", " ", "link", "</a>">>,
     <<"<div>", "<a href='https://asu.zoom.us/j/1'>", "ZOOM", " ", "LINK", "</a>", "</div>">>,
     <<"<a href='https://teams.live/2'>", "Join", "</a>",
       "<a href='https://asu.zoom.us/j/1'>", "</a>">>,
     <<"<a href='https://teams.live/2'>", "Online", "</a>">>,
     <<" ", "zoom", " ", "link">>}

LocationInputs ==
    {None} \cup
    { lead \o text \o link : lead \in LocLeads, text \in LocTexts, link \in LocLinks }

(***************************************************************************)
(* Specification of parse_location over LocationInputs                     *)
(***************************************************************************)
InitLoc ==
    /\ location_string \in LocationInputs
    /\ loc_pc = "call"
    /\ loc_result = NoLocResult
    /\ loc_again = NoLocResult
    /\ DTIdle
    /\ IEIdle
    /\ AttIdle
    /\ CCIdle
    /\ PageIdle
    /\ MoreIdle

\* load_data.py:137-138
ParseLocationEmpty ==
    /\ loc_pc = "call"
    /\ ~Truthy(location_string)
    /\ loc_result' = parse_location(location_string)
    /\ loc_pc' = "done"
    /\ UNCHANGED <<location_string, loc_again, not_loc_vars>>

\* load_data.py:140-173
ParseLocation ==
    /\ loc_pc = "call"
    /\ Truthy(location_string)
    /\ loc_result' = parse_location(location_string)
    /\ loc_pc' = "done"
    /\ UNCHANGED <<location_string, loc_again, not_loc_vars>>

\* a second call of parse_location, on the location text the first returned
ParseLocationAgain ==
    /\ loc_pc = "done"
    /\ loc_again' = parse_location(loc_result.location_text)
    /\ loc_pc' = "again"
    /\ UNCHANGED <<location_string, loc_result, not_loc_vars>>

NextLoc == ParseLocationEmpty \/ ParseLocation \/ ParseLocationAgain

SpecLoc == InitLoc /\ [][NextLoc]_vars

(***************************************************************************)
(* Properties of parse_location                                            *)
(***************************************************************************)
LocDone == loc_pc = "done"

\* the argument holds an href attribute
HasHref == Truthy(location_string)
    /\ \E i \in 1..Len(location_string) : location_string[i] \in AnchorTokens

\* the cleaned text of the argument ('' for a null argument)
LocText == IF Truthy(location_string) THEN CleanLocation(location_string) ELSE <<>>

Placeholders == {<<"online">>, <<"online", " ", "event">>, <<"tbd">>}

\* C10: the event type is hybrid exactly when a link was extracted and the
\* cleaned text is non-empty and no placeholder (online, online event,
\* tbd, in any case); a hybrid result has a location text and a link.
C10_HybridIff ==
    LocDone =>
        /\ loc_result.event_type = "hybrid"
              <=> (HasHref /\ LocText # <<>> /\ Lower(LocText) \notin Placeholders)
        /\ loc_result.event_type = "hybrid"
              => (loc_result.location_text # None /\ loc_result.online_link # None)

\* a room followed by an anchor labelled "Zoom link": hybrid, with the room
\* as text and the href as link
C10_Witness ==
    /\ LocDone
    /\ HasHref
    /\ loc_result.event_type = "hybrid"
    /\ loc_result.location_text = <<"GWC", " ", "487">>
    /\ loc_result.online_link = <<"https://asu.zoom.us/j/1">>

\* a placeholder text with a link: not hybrid
C10_WitnessPlaceholder ==
    /\ LocDone
    /\ HasHref
    /\ Lower(LocText) = <<"tbd">>
    /\ loc_result.event_type = "online"

OnlinePlaceholders == {<<"online">>, <<"online", " ", "event">>}

\* C11: for an input without a link the event type is online exactly when
\* the cleaned text equals 'online' or 'online event' in any case; every
\* other link-less text, also one that holds the word online next to other
\* text, is in_person.
C11_LinklessOnlineIffPlaceholder ==
    (LocDone /\ ~HasHref) =>
        /\ loc_result.event_type = "online" <=> Lower(LocText) \in OnlinePlaceholders
        /\ Lower(LocText) \notin OnlinePlaceholders => loc_result.event_type = "in_person"

\* C12 as stated: an input with no link and no physical text (cleaned text
\* empty or one of the placeholders online, online event, tbd), a null or
\* empty argument included, is in_person.
C12_NoLinkNoPhysicalIsInPerson ==
    (LocDone /\ ~HasHref /\ (LocText = <<>> \/ Lower(LocText) \in Placeholders))
        => loc_result.event_type = "in_person"

\* C12 amended: without a link, an empty cleaned text (null and empty
\* argument included) and the placeholder tbd are in_person, and the
\* placeholders online and online event are online.
C12_NoLinkPlaceholderType ==
    (LocDone /\ ~HasHref) =>
        /\ (LocText = <<>> \/ Lower(LocText) = <<"tbd">>)
              => loc_result.event_type = "in_person"
        /\ Lower(LocText) \in OnlinePlaceholders => loc_result.event_type = "online"

\* the placeholder online event without a link
C12_Witness ==
    /\ LocDone
    /\ ~HasHref
    /\ Lower(LocText) = <<"online", " ", "event">>
    /\ loc_result.event_type = "online"

\* a null argument
C12_WitnessNull ==
    /\ LocDone
    /\ location_string = None
    /\ loc_result.event_type = "in_person"

\* C13 as stated: an empty cleaned text and the text online event (any case)
\* give 'Online' when the event type is online and null otherwise; every
\* other cleaned text is returned unchanged.
C13_TextReturnedUnchanged ==
    LocDone =>
        IF LocText = <<>> \/ Lower(LocText) = <<"online", " ", "event">>
        THEN loc_result.location_text =
                 (IF loc_result.event_type = "online" THEN <<"Online">> ELSE None)
        ELSE loc_result.location_text = LocText

\* C13 amended: as stated, but a link-less cleaned text that equals online
\* in any case is returned as the literal 'Online'.
C13_TextReturned ==
    LocDone =>
        IF LocText = <<>> \/ Lower(LocText) = <<"online", " ", "event">>
        THEN loc_result.location_text =
                 (IF loc_result.event_type = "online" THEN <<"Online">> ELSE None)
        ELSE IF ~HasHref /\ Lower(LocText) = <<"online">>
        THEN loc_result.location_text = <<"Online">>
        ELSE loc_result.location_text = LocText

\* the text ONLINE without a link comes back as Online
C13_Witness ==
    /\ LocDone
    /\ ~HasHref
    /\ LocText = <<"ONLINE">>
    /\ loc_result.location_text = <<"Online">>

\* the text Online Event with a link comes back as Online
C13_WitnessOnlineEvent ==
    /\ LocDone
    /\ HasHref
    /\ LocText = <<"Online", " ", "Event">>
    /\ loc_result.location_text = <<"Online">>

LocAgain == loc_pc = "again"

C14_WitnessHybrid ==
    /\ LocAgain
    /\ loc_result.event_type = "hybrid"
    /\ loc_again.event_type = "in_person"
    /\ loc_again.location_text = loc_result.location_text

\* the tags of the argument that carry an href, in the order of the text
AnchorsOf(s) ==
    LET IsAnchor(t) == t \in AnchorTokens
    IN  IF Truthy(s) THEN SelectSeq(s, IsAnchor) ELSE <<>>

\* C29: the event type is one of in_person, online, hybrid; in_person
\* comes without a link; the link is the first href of the argument or
\* null; the location text is null or a non-empty string other than
\* 'online event' in any case.
C29_TripleWellFormed ==
    LocDone =>
        /\ loc_result.event_type \in {"in_person", "online", "hybrid"}
        /\ loc_result.event_type = "in_person" => loc_result.online_link = None
        /\ loc_result.online_link =
              (IF AnchorsOf(location_string) = <<>> THEN None
               ELSE <<HrefOf(AnchorsOf(location_string)[1])>>)
        /\ \/ loc_result.location_text = None
           \/ /\ loc_result.location_text # <<>>
              /\ Lower(loc_result.location_text) # <<"online", " ", "event">>

\* two anchors after a room: the link is the href of the first
C29_Witness ==
    /\ LocDone
    /\ Len(AnchorsOf(location_string)) = 2
    /\ HrefOf(AnchorsOf(location_string)[1]) # HrefOf(AnchorsOf(location_string)[2])
    /\ loc_result.online_link = <<"https://teams.live/2">>
    /\ loc_result.event_type = "hybrid"
    /\ loc_result.location_text # None

(***************************************************************************)
(* Batches given to insert_events                                          *)
(***************************************************************************)
EventIds == {AbsentId, NoneId, "", "101", "102"}

\* the dates, location and attendees of an event: a same-day range in
\* markup with a room and a Zoom link, attendees a string of digits
RoomWithZoom ==
    [dates |-> <<"<p>", "Mon, Nov 3, 2025", "</p>", "<p>",
                 "9:00 AM", " ", "&ndash;", " ", "5:30 PM", "</p>">>,
     location |-> <<"GWC", " ", "487", "<div>",
                    "<a href='https://asu.zoom.us/j/1'>", "Zoom", " ", "link",
                    "</a>", "</div>">>,
     attendees |-> AttStr(<<"1", "7">>)]
\* a text that is no date, no location, no attendees
NoDateNoPlace ==
    [dates |-> <<"TBA">>, location |-> Absent, attendees |-> AttAbsent]
\* a range whose end time is no clock time, held online, a negative count
BadEndOnline ==
    [dates |-> <<"Tue, Nov 4, 2025", " ", "5:30 PM", " ", "-", " ", "13:30 PM">>,
     location |-> <<"Online">>,
     attendees |-> AttInt(0 - 3)]
\* a start only, a room, attendees a superscript two
SuperscriptCount ==
    [dates |-> <<"Mon, Nov 3, 2025", " ", "9:00 AM">>,
     location |-> <<"GWC">>,
     attendees |-> AttStr(<<"U+00B2">>)]

Payloads == {RoomWithZoom, NoDateNoPlace, BadEndOnline, SuperscriptCount}

Event(id, p) ==
    [event_id |-> id, dates |-> p.dates, location |-> p.location,
     attendees |-> p.attendees]

\* the payload of the record that lacks an event_id in the given way
MissingIdPayload(id) ==
    CASE id = AbsentId -> BadEndOnline
      [] id = NoneId -> RoomWithZoom
      [] id = "" -> NoDateNoPlace

\* every payload under each event_id, and a record for each way an
\* event_id can be missing
EventPool ==
    {Event(id, p) : id \in {i \in EventIds : IdTruthy(GetId(i))}, p \in Payloads}
        \cup {Event(id, MissingIdPayload(id)) :
                  id \in {i \in EventIds : ~IdTruthy(GetId(i))}}

\* the records of the lists that are loaded more than once
RerunPool ==
    {Event("101", RoomWithZoom), Event("101", NoDateNoPlace),
     Event("102", BadEndOnline), Event("", NoDateNoPlace),
     Event("102", SuperscriptCount)}

\* a row stored by an earlier load
StoredRow ==
    [event_id |-> "101",
     event_start_datetime |-> NoneDT,
     event_end_datetime |-> NoneDT,
     original_date_string |-> <<"TBA">>,
     location_text |-> <<"GWC">>,
     online_link |-> None,
     event_type |-> "in_person",
     attendees |-> 5]

(***************************************************************************)
(* Specification of insert_events: one call on a batch                     *)
(***************************************************************************)
\* the locals and the table before the first call
IEStart ==
    /\ ie_pc = "call"
    /\ seen_ids = {} /\ unique_events = <<>>
    /\ duplicates = 0 /\ parse_warnings = 0 /\ event_values = <<>>
    /\ printed_warnings = 0 /\ ie_return = 0
    /\ ie_rolled_back = FALSE /\ ie_run = 0
    /\ db_events \in {{}, {StoredRow}}

InitIE ==
    /\ events \in SeqsUpTo(EventPool, MaxBatch)
    /\ IEStart
    /\ DTIdle
    /\ LocIdle
    /\ AttIdle
    /\ CCIdle
    /\ PageIdle
    /\ MoreIdle

\* load_data.py:255-257: nothing to insert
InsertEventsEmpty ==
    /\ ie_pc = "call"
    /\ events = <<>>
    /\ ie_pc' = "done"
    /\ ie_return' = 0
    /\ ie_rolled_back' = FALSE
    /\ UNCHANGED <<events, seen_ids, unique_events, duplicates, parse_warnings,
                   event_values, printed_warnings, ie_run, db_events, not_ie_vars>>

\* load_data.py:259-306: the locals after the two loops
Locals ==
    LET acc == DedupLoop(events)
    IN  /\ seen_ids' = acc.seen_ids
        /\ unique_events' = acc.unique_events
        /\ duplicates' = acc.duplicates
        /\ parse_warnings' = 0
        /\ event_values' = NormalizeRows(acc.unique_events)
        /\ printed_warnings' = WarningsPrinted(acc.unique_events)

\* load_data.py:259-344: execute_values and commit succeed
InsertEventsCommit ==
    /\ ie_pc = "call"
    /\ events # <<>>
    /\ FirstRaise(DedupLoop(events).unique_events) = 0
    /\ Locals
    /\ db_events' = Upsert(db_events, event_values')
    /\ ie_return' = Len(unique_events')
    /\ ie_rolled_back' = FALSE
    /\ ie_pc' = "done"
    /\ UNCHANGED <<events, ie_run, not_ie_vars>>

\* load_data.py:259-341, 345-348: the database raises after the statement
\* wrote some of the rows, or at the commit; the batch is rolled back
InsertEventsRollback ==
    /\ ie_pc = "call"
    /\ events # <<>>
    /\ FirstRaise(DedupLoop(events).unique_events) = 0
    /\ Locals
    /\ \E written \in 0..Len(event_values') :
          db_events' = RolledBack(db_events, SubSeq(event_values', 1, written))
    /\ ie_return' = 0
    /\ ie_rolled_back' = TRUE
    /\ ie_pc' = "done"
    /\ UNCHANGED <<events, ie_run, not_ie_vars>>

\* load_data.py:259-298: building a row raises; the exception leaves
\* insert_events before the try at line 340
InsertEventsRaise ==
    /\ ie_pc = "call"
    /\ events # <<>>
    /\ LET acc == DedupLoop(events)
           k == FirstRaise(acc.unique_events)
       IN  /\ k > 0
           /\ seen_ids' = acc.seen_ids
           /\ unique_events' = acc.unique_events
           /\ duplicates' = acc.duplicates
           /\ parse_warnings' = 0
           /\ event_values' = NormalizeRows(SubSeq(acc.unique_events, 1, k - 1))
           /\ printed_warnings' = WarningsPrinted(SubSeq(acc.unique_events, 1, k))
    /\ ie_pc' = "raised"
    /\ UNCHANGED <<events, ie_return, ie_rolled_back, ie_run, db_events, not_ie_vars>>

NextIE ==
    InsertEventsEmpty \/ InsertEventsCommit \/ InsertEventsRollback \/ InsertEventsRaise

SpecIE == InitIE /\ [][NextIE]_vars

(***************************************************************************)
(* Specification of insert_events called again on the same list            *)
(***************************************************************************)
InitRerun ==
    /\ events \in SeqsUpTo(RerunPool, MaxBatch)
    /\ IEStart
    /\ DTIdle
    /\ LocIdle
    /\ AttIdle
    /\ CCIdle
    /\ PageIdle
    /\ MoreIdle

\* the loader is run again on the list it was given before; the locals of
\* the call that ended stay in the state until the next call ends
CallAgain ==
    /\ ie_pc = "done"
    /\ ie_run + 1 < MaxRuns
    /\ ie_pc' = "call"
    /\ ie_run' = ie_run + 1
    /\ UNCHANGED <<events, seen_ids, unique_events, duplicates, parse_warnings,
                   event_values, printed_warnings, ie_return, ie_rolled_back,
                   db_events, not_ie_vars>>

NextRerun == NextIE \/ CallAgain

SpecRerun == InitRerun /\ [][NextRerun]_vars

(***************************************************************************)
(* Specification of the attendees expression over AttendeeInputs           *)
(***************************************************************************)
AttendeeInputs ==
    {AttAbsent, AttNone}
        \cup {AttInt(n) : n \in (0 - 2)..MaxCount}
        \cup {AttStr(s) : s \in SeqsUpTo(AttChars, MaxDigits)}

InitAtt ==
    /\ attendees \in AttendeeInputs
    /\ att_pc = "call"
    /\ att_count = 0
    /\ DTIdle
    /\ LocIdle
    /\ IEIdle
    /\ CCIdle
    /\ PageIdle
    /\ MoreIdle

\* line 298, the else: the value is falsy or its text is no run of digits
AttendeesDefault ==
    /\ att_pc = "call"
    /\ ~(AttTruthy(GetAtt(attendees)) /\ StrIsDigit(GetAtt(attendees)))
    /\ att_count' = AttendeeCount(attendees).n
    /\ att_pc' = "done"
    /\ UNCHANGED <<attendees, not_att_vars>>

\* line 298: int() returns
AttendeesInt ==
    /\ att_pc = "call"
    /\ AttTruthy(GetAtt(attendees)) /\ StrIsDigit(GetAtt(attendees))
    /\ AttendeeCount(attendees).ok
    /\ att_count' = AttendeeCount(attendees).n
    /\ att_pc' = "done"
    /\ UNCHANGED <<attendees, not_att_vars>>

\* line 298: int() raises ValueError
AttendeesRaise ==
    /\ att_pc = "call"
    /\ AttTruthy(GetAtt(attendees)) /\ StrIsDigit(GetAtt(attendees))
    /\ ~AttendeeCount(attendees).ok
    /\ att_pc' = "raised"
    /\ UNCHANGED <<attendees, att_count, not_att_vars>>

NextAtt == AttendeesDefault \/ AttendeesInt \/ AttendeesRaise

SpecAtt == InitAtt /\ [][NextAtt]_vars

(***************************************************************************)
(* Properties of insert_events                                             *)
(***************************************************************************)
\* the call went through both loops
IEDone == ie_pc = "done" /\ events # <<>>

IdAt(i) == GetId(events[i].event_id)

\* the positions of the records that are the first to carry their event_id
FirstOfId ==
    {i \in 1..Len(events) :
        IdTruthy(IdAt(i)) /\ \A j \in 1..(i - 1) : IdAt(j) # IdAt(i)}

\* the records of evs at the positions in I, in the order of evs
RECURSIVE Pick(_, _, _)
Pick(evs, I, k) ==
    IF k > Len(evs) THEN <<>>
    ELSE (IF k \in I THEN <<evs[k]>> ELSE <<>>) \o Pick(evs, I, k + 1)

\* C1: the survivors have pairwise distinct event_ids, each is the first
\* record of the input that carries its event_id, and they keep the order
\* of the input.
C1_FirstOccurrenceWins ==
    IEDone =>
        /\ \A a, b \in 1..Len(unique_events) :
              a # b => GetId(unique_events[a].event_id) # GetId(unique_events[b].event_id)
        /\ unique_events = Pick(events, FirstOfId, 1)

\* a batch where an event_id comes twice with different dates, around or
\* next to another id: two survivors
C1_Witness ==
    /\ IEDone
    /\ Len(unique_events) = 2
    /\ \E i, j \in 1..Len(events) :
          i < j /\ IdTruthy(IdAt(i)) /\ IdAt(i) = IdAt(j) /\ events[i] # events[j]

\* the records whose event_id equals that of an earlier record
Repeats ==
    {i \in 1..Len(events) : \E j \in 1..(i - 1) : IdAt(j) = IdAt(i)}

\* C2: the duplicates counter equals the number of records whose event_id
\* equals the event_id of an earlier record of the batch.
C2_DuplicatesCountRepeats == IEDone => duplicates = Cardinality(Repeats)

\* the records that have an event_id
HasId(event) == IdTruthy(GetId(event.event_id))

\* C3: a record without event_id (key missing, null or empty) is dropped:
\* it is no dedup key, it is in no row given to the upsert, and the
\* survivors and their rows are those of the batch without such records.
C3_MissingIdDropped ==
    IEDone =>
        /\ \A id \in seen_ids : IdTruthy(id)
        /\ \A k \in 1..Len(unique_events) : HasId(unique_events[k])
        /\ \A k \in 1..Len(event_values) : IdTruthy(event_values[k].event_id)
        /\ \A r \in db_events : IdTruthy(r.event_id)
        /\ LET keyed == SelectSeq(events, HasId)
           IN  /\ unique_events = DedupLoop(keyed).unique_events
               /\ event_values = NormalizeRows(DedupLoop(keyed).unique_events)

\* a committed batch with a record without event_id before two keyed ones
C3_Witness ==
    /\ IEDone
    /\ Len(events) = 3
    /\ ~HasId(events[1]) /\ HasId(events[2]) /\ HasId(events[3])
    /\ Len(event_values) = 2
    /\ ie_return = 2
    /\ Cardinality(db_events) = 2

\* a surviving record whose non-empty date string matched no pattern or
\* failed to parse
ParseFailed(event) ==
    LET d == Get(event.dates)
        r == parse_datetime(d)
    IN  Truthy(d) /\ (r.pattern = 0 \/ r.warned)

\* C9: every such date string gives a warning, and the parse-warning count
\* of the batch is the number of surviving records for which this happened.
C9_ParseWarningsCounted ==
    IEDone =>
        LET failed == Cardinality({k \in 1..Len(unique_events) :
                                      ParseFailed(unique_events[k])})
        IN  /\ printed_warnings = failed
            /\ parse_warnings = failed

(***************************************************************************)
(* Properties of the attendees expression                                  *)
(***************************************************************************)
\* the value is a string of decimal digits
DigitString(v) ==
    v.kind = "str" /\ v.s # <<>> /\ \A i \in 1..Len(v.s) : v.s[i] \in DecimalChars

\* C15: the attendee count is a non-negative integer: the value of the
\* field when it is a non-negative int or a string of digits, 0 when the
\* field is missing, null, empty, negative or no number; computing it never
\* raises.
C15_AttendeesNonNegative ==
    /\ att_pc # "raised"
    /\ att_pc = "done" =>
          /\ att_count >= 0
          /\ att_count =
                (IF attendees.kind = "int" /\ attendees.n >= 0 THEN attendees.n
                 ELSE IF DigitString(attendees) THEN DecimalOf(attendees.s)
                 ELSE 0)

(***************************************************************************)
(* Properties of insert_events: malformed fields, atomicity                *)
(***************************************************************************)
\* C16: no value of a record's dates, location or attendees makes
\* insert_events raise or abort the batch: the call ends by returning, and
\* unless the database failed every survivor has its row in the table.
C16_MalformedFieldNeverAborts ==
    /\ ie_pc # "raised"
    /\ (IEDone /\ ~ie_rolled_back) =>
          /\ Len(event_values) = Len(unique_events)
          /\ \A k \in 1..Len(event_values) : event_values[k] \in db_events

C17_WitnessRaised ==
    /\ ie_pc = "raised"
    /\ Len(unique_events) = 2
    /\ Len(event_values) = 1
    /\ db_events = {StoredRow}

ConcBatches ==
    {<<Event("101", RoomWithZoom)>>,
     <<Event("101", NoDateNoPlace)>>,
     <<Event("102", BadEndOnline)>>,
     <<Event("101", BadEndOnline), Event("102", RoomWithZoom)>>,
     <<Event("102", NoDateNoPlace), Event("101", RoomWithZoom)>>,
     <<Event("101", RoomWithZoom), Event("", NoDateNoPlace),
       Event("101", BadEndOnline)>>}

InitCC ==
    /\ cc_events \in [Conns -> ConcBatches]
    /\ cc_pc = [c \in Conns |-> "call"]
    /\ cc_rows = [c \in Conns |-> <<>>]
    /\ cc_written = [c \in Conns |-> 0]
    /\ cc_log = <<>>
    /\ cc_return = [c \in Conns |-> 0]
    /\ cc_commits = <<>>
    /\ db_events \in {{}, {StoredRow}}
    /\ events = <<>> /\ ie_pc = "idle" /\ seen_ids = {} /\ unique_events = <<>>
    /\ duplicates = 0 /\ parse_warnings = 0 /\ event_values = <<>>
    /\ printed_warnings = 0 /\ ie_return = 0 /\ ie_rolled_back = FALSE
    /\ ie_run = 0
    /\ DTIdle
    /\ LocIdle
    /\ AttIdle
    /\ PageIdle
    /\ MoreIdle

\* the open transaction of connection c has written the row of event_id id
HoldsRow(c, id) ==
    /\ cc_pc[c] = "execute"
    /\ \E k \in 1..cc_written[c] : cc_rows[c][k].event_id = id

\* load_data.py:255-338: the rows of the list are built
CCBuildRows(c) ==
    /\ cc_pc[c] = "call"
    /\ cc_rows' = [cc_rows EXCEPT ![c] =
                      NormalizeRows(DedupLoop(cc_events[c]).unique_events)]
    /\ cc_pc' = [cc_pc EXCEPT ![c] = "execute"]
    /\ UNCHANGED <<cc_events, cc_written, cc_log, cc_return, cc_commits, db_events,
                   not_cc_vars>>

\* load_data.py:341: the statement writes its next row
CCWriteRow(c) ==
    /\ cc_pc[c] = "execute"
    /\ cc_written[c] < Len(cc_rows[c])
    /\ \A d \in Conns \ {c} : ~HoldsRow(d, cc_rows[c][cc_written[c] + 1].event_id)
    /\ cc_written' = [cc_written EXCEPT ![c] = @ + 1]
    /\ cc_log' = Append(cc_log, [conn |-> c, row |-> cc_rows[c][cc_written[c] + 1]])
    /\ UNCHANGED <<cc_events, cc_pc, cc_rows, cc_return, cc_commits, db_events,
                   not_cc_vars>>

\* the versions in the log that connection c wrote and that no committed
\* transaction has overwritten since
NewestOf(c) ==
    LET Overwritten(i) ==
            \E j \in (i + 1)..Len(cc_log) :
                /\ cc_log[j].row.event_id = cc_log[i].row.event_id
                /\ \E n \in 1..Len(cc_commits) : cc_commits[n] = cc_log[j].conn
        Newest(r) ==
            \E i \in 1..Len(cc_log) :
                cc_log[i].conn = c /\ cc_log[i].row = r /\ ~Overwritten(i)
    IN  SelectSeq(cc_rows[c], Newest)

\* load_data.py:342-344: the transaction commits, its versions are stored
CCCommit(c) ==
    /\ cc_pc[c] = "execute"
    /\ cc_written[c] = Len(cc_rows[c])
    /\ db_events' = Upsert(db_events, NewestOf(c))
    /\ cc_commits' = Append(cc_commits, c)
    /\ cc_return' = [cc_return EXCEPT ![c] = Len(cc_rows[c])]
    /\ cc_written' = [cc_written EXCEPT ![c] = 0]
    /\ cc_pc' = [cc_pc EXCEPT ![c] = "done"]
    /\ UNCHANGED <<cc_events, cc_rows, cc_log, not_cc_vars>>

\* load_data.py:345-348: the database raises (a deadlock with the other
\* transaction included); the transaction is rolled back, its versions
\* are dropped
CCRollback(c) ==
    /\ cc_pc[c] = "execute"
    /\ db_events' = RolledBack(db_events, SubSeq(cc_rows[c], 1, cc_written[c]))
    /\ LET OfOther(e) == e.conn # c
       IN  cc_log' = SelectSeq(cc_log, OfOther)
    /\ cc_return' = [cc_return EXCEPT ![c] = 0]
    /\ cc_written' = [cc_written EXCEPT ![c] = 0]
    /\ cc_pc' = [cc_pc EXCEPT ![c] = "done"]
    /\ UNCHANGED <<cc_events, cc_rows, cc_commits, not_cc_vars>>

NextCC ==
    \E c \in Conns : CCBuildRows(c) \/ CCWriteRow(c) \/ CCCommit(c) \/ CCRollback(c)

SpecCC == InitCC /\ [][NextCC]_vars

\* C18: when both batches have committed, the stored row of every event_id
\* that is in both equals, in every column, the row of the batch that
\* committed last.
C18_LastCommitWins ==
    (Len(cc_commits) = 2 /\ \A c \in Conns : cc_pc[c] = "done") =>
        LET first == cc_rows[cc_commits[1]]
            last == cc_rows[cc_commits[2]]
        IN  \A k \in 1..Len(last) :
                (\E j \in 1..Len(first) : first[j].event_id = last[k].event_id)
                    => {r \in db_events : r.event_id = last[k].event_id} = {last[k]}

\* B committed before A, both hold event 101 with different values, over a
\* stored row of event 101: the table holds A's row
C18_Witness ==
    /\ cc_commits = <<"B", "A">>
    /\ \A c \in Conns : cc_pc[c] = "done"
    /\ \E k \in 1..Len(cc_rows["A"]), j \in 1..Len(cc_rows["B"]) :
          /\ cc_rows["A"][k].event_id = "101"
          /\ cc_rows["B"][j].event_id = "101"
          /\ cc_rows["A"][k].event_type # cc_rows["B"][j].event_type
          /\ cc_rows["A"][k] \in db_events
          /\ cc_rows["B"][j] \notin db_events
    /\ Cardinality(db_events) = 2

(***************************************************************************)
(* get_events_paginated (src/backend/database.py)                          *)
(***************************************************************************)
DefaultLimit == 20
MaxLimit == 100

\* database.py:89-90
EffectivePage(p) == IF p < 1 THEN 1 ELSE p

\* a variant of lines 91-92 that caps a large limit at the maximum
EffectiveLimitCapped(l) ==
    IF l < 1 THEN DefaultLimit ELSE IF l > MaxLimit THEN MaxLimit ELSE l

\* database.py:91-92
EffectiveLimit(l) == IF l < 1 \/ l > MaxLimit THEN DefaultLimit ELSE l

\* database.py:94, on the effective page and limit
Offset(p, l) == (p - 1) * l

\* LIMIT l OFFSET o on the ordered rows 1..total: the ranks returned
FetchPage(total, l, o) ==
    LET n == IF total - o < 0 THEN 0 ELSE IF total - o < l THEN total - o ELSE l
    IN  [k \in 1..n |-> o + k]

\* a variant of line 186 that rounds the quotient down
TotalPagesFloor(total, l) == IF total > 0 THEN total \div l ELSE 0

\* database.py:186
TotalPages(total, l) == IF total > 0 THEN (total + l - 1) \div l ELSE 0

\* database.py:89-195, for the number of events the filters select
get_events_paginated(p, l, total) ==
    LET ep == EffectivePage(p)
        el == EffectiveLimit(l)
        offset == Offset(ep, el)
    IN  [events |-> FetchPage(total, el, offset),
         sql_limit |-> el,
         sql_offset |-> offset,
         current_page |-> ep,
         total_pages |-> TotalPages(total, el),
         total_events |-> total,
         limit |-> el,
         has_more |-> ep * el < total]

\* pages below, at and above 1; limits around the ends of the accepted
\* range and around the default
PageInputs == (0 - 2)..MaxPage
LimitInputs ==
    ((0 - 1)..MaxSmallLimit)
        \cup ((DefaultLimit - 1)..(DefaultLimit + 1))
        \cup ((MaxLimit - 1)..(MaxLimit + 2))
MatchingInputs == (0..MaxMatching) \cup {DefaultLimit + 1, MaxLimit + 1}

InitPage ==
    /\ page \in PageInputs
    /\ limit \in LimitInputs
    /\ matching \in MatchingInputs
    /\ pg_pc = "call"
    /\ pg_result = NoPageResult
    /\ DTIdle
    /\ LocIdle
    /\ IEIdle
    /\ AttIdle
    /\ CCIdle
    /\ MoreIdle

\* database.py:69-195
GetEventsPaginated ==
    /\ pg_pc = "call"
    /\ pg_result' = get_events_paginated(page, limit, matching)
    /\ pg_pc' = "done"
    /\ UNCHANGED <<page, limit, matching, not_pg_vars>>

NextPage == GetEventsPaginated

SpecPage == InitPage /\ [][NextPage]_vars

\* C20: the effective page is at least 1 (a page below 1 becomes 1), the
\* effective limit is in 1..100 (a limit below 1 or above 100 becomes 20),
\* the offset is (page - 1) * limit of the effective values and never
\* negative, and the pagination block reports the effective values.
C20_EffectivePageAndLimit ==
    pg_pc = "done" =>
        LET p == pg_result.current_page
            l == pg_result.limit
        IN  /\ p >= 1
            /\ p = (IF page < 1 THEN 1 ELSE page)
            /\ l \in 1..100
            /\ l = (IF limit < 1 \/ limit > 100 THEN 20 ELSE limit)
            /\ pg_result.sql_limit = l
            /\ pg_result.sql_offset = (p - 1) * l
            /\ pg_result.sql_offset >= 0

\* page below 1 and limit above 100: page 1 of 20 a page, offset 0
C20_Witness ==
    /\ pg_pc = "done"
    /\ page < 1
    /\ limit > 100
    /\ pg_result.current_page = 1
    /\ pg_result.limit = 20
    /\ pg_result.sql_offset = 0
    /\ Len(pg_result.events) = 20

\* page 3 of 2 a page: offset 4
C20_WitnessInRange ==
    /\ pg_pc = "done"
    /\ page = 3
    /\ limit = 2
    /\ pg_result.sql_offset = 4
    /\ pg_result.events = <<5>>

\* C26: total_pages is the ceiling of total_events / limit, that is the least
\* number of pages of limit events that hold total_events events (0 when
\* there is none), and has_more is true exactly when current_page is below
\* total_pages.
C26_TotalPagesAndHasMore ==
    pg_pc = "done" =>
        LET tp == pg_result.total_pages
            t == pg_result.total_events
            l == pg_result.limit
        IN  /\ pg_result.current_page >= 1 /\ l \in 1..100 /\ t >= 0
            /\ tp >= 0
            /\ tp * l >= t
            /\ tp > 0 => (tp - 1) * l < t
            /\ t = 0 => tp = 0
            /\ pg_result.has_more <=> pg_result.current_page < tp

\* 5 events, 2 a page: 3 pages, and page 2 has more
C26_Witness ==
    /\ pg_pc = "done"
    /\ pg_result.total_events = 5
    /\ pg_result.limit = 2
    /\ pg_result.total_pages = 3
    /\ pg_result.current_page = 2
    /\ pg_result.has_more

\* the last page has no more
C26_WitnessLastPage ==
    /\ pg_pc = "done"
    /\ pg_result.total_events = 5
    /\ pg_result.limit = 2
    /\ pg_result.current_page = 3
    /\ ~pg_result.has_more

(***************************************************************************)
(* A client reading pages 1..total_pages with get_events_paginated while   *)
(* other connections write the events table (database.py:142-182)          *)
(***************************************************************************)
\* start timestamps of a row; NoneDT is NULL
WalkStarts == {NoneDT, 1, 2}
\* a row is absent, or holds a start and satisfies the WHERE clause or not
WalkRows ==
    {AbsentRow} \cup [present : {TRUE}, start : WalkStarts, matches : BOOLEAN]
WalkLimits == {1, 2}

\* the event_ids the WHERE clause built at lines 96-140 selects
Selected(table) == {i \in WalkIds : table[i].present /\ table[i].matches}

\* database.py:142 and 176-177: SELECT COUNT(*)
CountQuery(table) == Cardinality(Selected(table))

\* the joined rows: event_id is the conflict target of the loader's upsert
\* and org_id that of the organizations upsert, so the LEFT JOIN of line 169
\* gives one row for each selected event
RowsOf(table) ==
    {[event_id |-> i, start |-> table[i].start] : i \in Selected(table)}

\* a variant of line 171 without NULLS LAST: DESC alone puts NULL first
SqlBeforeNullsFirst(a, b) ==
    IF a.start # b.start
    THEN IF a.start = NoneDT THEN TRUE
         ELSE IF b.start = NoneDT THEN FALSE
         ELSE a.start > b.start
    ELSE a.event_id < b.event_id

\* database.py:171: ORDER BY e.event_start_datetime DESC NULLS LAST, e.event_id
SqlBefore(a, b) ==
    IF a.start # b.start
    THEN IF a.start = NoneDT THEN FALSE
         ELSE IF b.start = NoneDT THEN TRUE
         ELSE a.start > b.start
    ELSE a.event_id < b.event_id

RECURSIVE OrderBy(_)
OrderBy(rows) ==
    IF rows = {} THEN <<>>
    ELSE LET first == CHOOSE a \in rows : \A b \in rows \ {a} : SqlBefore(a, b)
         IN  <<first>> \o OrderBy(rows \ {first})

\* database.py:144-173 and 179-180: the ordered rows LIMIT l OFFSET o
EventsQuery(table, l, o) ==
    LET ordered == OrderBy(RowsOf(table))
        ranks == FetchPage(Len(ordered), l, o)
    IN  [k \in 1..Len(ranks) |-> ordered[ranks[k]]]

InitWalk ==
    /\ wk_table \in [WalkIds -> WalkRows]
    /\ wk_limit \in WalkLimits
    /\ wk_page = 1
    /\ wk_pc = "count"
    /\ wk_total = 0
    /\ wk_total_pages = 0
    /\ wk_pages = <<>>
    /\ wk_wrote = {}
    /\ OldIdle
    /\ CursorIdle
    /\ ScrapeIdle
    /\ OfficersIdle
    /\ StudentsIdle

\* database.py:176-177
WalkCount ==
    /\ wk_pc = "count"
    /\ wk_total' = CountQuery(wk_table)
    /\ wk_pc' = "select"
    /\ UNCHANGED <<wk_table, wk_limit, wk_page, wk_total_pages, wk_pages,
                   wk_wrote, not_wk_vars>>

\* database.py:179-195, and the client going on to the next page
WalkSelect ==
    /\ wk_pc = "select"
    /\ LET ep == EffectivePage(wk_page)
           el == EffectiveLimit(wk_limit)
           last == IF wk_page = 1 THEN TotalPages(wk_total, el)
                   ELSE wk_total_pages
       IN  /\ wk_pages' = Append(wk_pages, EventsQuery(wk_table, el, Offset(ep, el)))
           /\ wk_total_pages' = last
           /\ IF wk_page >= last
              THEN wk_pc' = "done" /\ wk_page' = wk_page
              ELSE wk_pc' = "count" /\ wk_page' = wk_page + 1
    /\ UNCHANGED <<wk_table, wk_limit, wk_total, wk_wrote, not_wk_vars>>

\* load_data.py:309-338 on another connection: a committed upsert of one row
ConcurrentUpsert ==
    /\ wk_pc \in {"count", "select"}
    /\ \E i \in WalkIds \ wk_wrote, row \in WalkRows \ {AbsentRow} :
          /\ row # wk_table[i]
          /\ wk_table' = [wk_table EXCEPT ![i] = row]
          /\ wk_wrote' = wk_wrote \cup {i}
    /\ UNCHANGED <<wk_limit, wk_page, wk_pc, wk_total, wk_total_pages, wk_pages,
                   not_wk_vars>>

\* another connection: a committed delete of one row
ConcurrentDelete ==
    /\ wk_pc \in {"count", "select"}
    /\ \E i \in WalkIds \ wk_wrote :
          /\ wk_table[i].present
          /\ wk_table' = [wk_table EXCEPT ![i] = AbsentRow]
          /\ wk_wrote' = wk_wrote \cup {i}
    /\ UNCHANGED <<wk_limit, wk_page, wk_pc, wk_total, wk_total_pages, wk_pages,
                   not_wk_vars>>

NextWalk == WalkCount \/ WalkSelect \/ ConcurrentUpsert \/ ConcurrentDelete

SpecWalk == InitWalk /\ [][NextWalk]_vars

RECURSIVE Concatenation(_)
Concatenation(pages) ==
    IF pages = <<>> THEN <<>> ELSE Head(pages) \o Concatenation(Tail(pages))

\* how often event i is in the list
Times(i, list) == Cardinality({k \in 1..Len(list) : list[k].event_id = i})

\* C27: when no other connection wrote during the walk, pages
\* 1..total_pages hold every event the filters select exactly once and no
\* other, each page holds at most limit events, and the concatenation goes
\* by start descending, null starts last, equal starts by event_id.
C27_WalkCoversOnce ==
    (wk_pc = "done" /\ wk_wrote = {}) =>
        LET all == Concatenation(wk_pages)
        IN  /\ \A k \in 1..Len(wk_pages) : Len(wk_pages[k]) <= wk_limit
            /\ \A i \in WalkIds :
                  Times(i, all) =
                      (IF wk_table[i].present /\ wk_table[i].matches THEN 1 ELSE 0)
            /\ \A k \in 1..Len(all) : all[k].start = wk_table[all[k].event_id].start
            /\ \A j, k \in 1..Len(all) :
                  j < k =>
                      \/ all[j].start # NoneDT /\ all[k].start = NoneDT
                      \/ /\ all[j].start # NoneDT /\ all[k].start # NoneDT
                         /\ all[j].start > all[k].start
                      \/ all[j].start = all[k].start /\ all[j].event_id < all[k].event_id

\* three pages of one event: a null start after two equal starts
C27_Witness ==
    /\ wk_pc = "done"
    /\ wk_wrote = {}
    /\ wk_limit = 1
    /\ Len(wk_pages) = 3
    /\ Concatenation(wk_pages) =
          <<[event_id |-> 102, start |-> 2], [event_id |-> 103, start |-> 2],
            [event_id |-> 101, start |-> NoneDT]>>

\* a write during the walk: a row no writer touched is skipped or repeated
C27_WitnessBrokenByWrite ==
    /\ wk_pc = "done"
    /\ wk_wrote # {}
    /\ \E i \in WalkIds \ wk_wrote :
          /\ wk_table[i].present /\ wk_table[i].matches
          /\ Times(i, Concatenation(wk_pages)) # 1

\* a write between the count query and the page query of one call
C27_WitnessRepeated ==
    /\ wk_pc = "done"
    /\ \E i \in WalkIds \ wk_wrote : Times(i, Concatenation(wk_pages)) = 2

(***************************************************************************)
(* get_db_connection and get_db_cursor (database.py:11-66) around a        *)
(* with-body that executes statements                                      *)
(***************************************************************************)
\* most statements one with-body executes
MaxStatements == 3
Statements == {"select", "insert", "update"}

\* exceptions, named by class and by the call that raised them
ConnectError == "OperationalError from connect"
CursorError == "InterfaceError from cursor"
ExecuteError == "IntegrityError from execute"
CommitError == "OperationalError from commit"
ValueErrorInBody == "ValueError from the body"
InterruptInBody == "KeyboardInterrupt from the body"
BodyErrors == {ExecuteError, ValueErrorInBody, InterruptInBody}

\* isinstance(e, psycopg2.Error), line 30
IsPsycopgError(e) == e \in {ConnectError, CursorError, ExecuteError, CommitError}
\* isinstance(e, Exception), line 62: KeyboardInterrupt is a BaseException only
IsException(e) == e # NoExc /\ e # InterruptInBody

\* database.py:30-37 once conn is set: the calls made while exc passes
ConnectionExit(exc) ==
    (IF IsPsycopgError(exc) THEN <<"rollback">> ELSE <<>>) \o <<"conn.close">>

\* a variant of lines 60-66 with the commit in the finally clause
CursorExitCommitsAlways(body_exc, commit_fails) ==
    [calls |-> (IF IsException(body_exc) THEN <<"rollback">> ELSE <<>>)
                   \o <<"commit", "cursor.close">>,
     exc |-> body_exc]

\* database.py:60-66 after the yield: body_exc is what the with-body raised,
\* commit_fails whether conn.commit() raises
CursorExit(body_exc, commit_fails) ==
    LET attempt == IF body_exc # NoExc THEN <<>>
                   ELSE IF commit_fails THEN <<"commit!">> ELSE <<"commit">>
        raised == IF body_exc # NoExc THEN body_exc
                  ELSE IF commit_fails THEN CommitError ELSE NoExc
    IN  [calls |-> attempt
                     \o (IF IsException(raised) THEN <<"rollback">> ELSE <<>>)
                     \o <<"cursor.close">>,
         exc |-> raised]

\* what the driver calls do to the connection, the cursor, the transaction
\* and the database; a call ending in ! raised
RECURSIVE Driver(_, _)
Driver(calls, st) ==
    IF calls = <<>> THEN st
    ELSE LET c == Head(calls)
             next ==
                CASE c = "connect" -> [st EXCEPT !.conn = "open", !.tx = "open"]
                  [] c = "cursor" -> [st EXCEPT !.cursor = "open"]
                  [] c = "commit" ->
                        IF st.tx = "open"
                        THEN [st EXCEPT !.tx = "committed", !.committed = st.executed]
                        ELSE st
                  [] c = "rollback" ->
                        IF st.tx = "open" THEN [st EXCEPT !.tx = "rolled back"] ELSE st
                  [] c = "cursor.close" -> [st EXCEPT !.cursor = "closed"]
                  [] c = "conn.close" ->
                        [st EXCEPT !.conn = "closed",
                                   !.tx = IF st.tx = "open" THEN "discarded" ELSE st.tx]
                  [] OTHER -> st
         IN  Driver(Tail(calls), next)

DriverState ==
    [conn |-> cur_conn, cursor |-> cur_cursor, tx |-> cur_tx,
     executed |-> cur_executed, committed |-> cur_committed]

\* the calls are made and the block is left with exc, or without
Leave(calls, exc) ==
    LET st == Driver(calls, DriverState)
    IN  /\ cur_calls' = cur_calls \o calls
        /\ cur_conn' = st.conn
        /\ cur_cursor' = st.cursor
        /\ cur_tx' = st.tx
        /\ cur_committed' = st.committed
        /\ cur_exc' = exc
        /\ cur_pc' = IF exc = NoExc THEN "done" ELSE "raised"

InitCursor ==
    /\ cur_pc = "call"
    /\ cur_calls = <<>>
    /\ cur_conn = "none"
    /\ cur_cursor = "none"
    /\ cur_tx = "none"
    /\ cur_executed = <<>>
    /\ cur_committed = <<>>
    /\ cur_body = "none"
    /\ cur_body_exc = NoExc
    /\ cur_exc = NoExc
    /\ OldIdle
    /\ WalkIdle
    /\ ScrapeIdle
    /\ OfficersIdle
    /\ StudentsIdle

\* database.py:28-29 and 58-60: connected, cursor made, the with-body starts
CursorEnter ==
    /\ cur_pc = "call"
    /\ cur_calls' = <<"connect", "cursor">>
    /\ cur_conn' = "open"
    /\ cur_cursor' = "open"
    /\ cur_tx' = "open"
    /\ cur_body' = "running"
    /\ cur_pc' = "body"
    /\ UNCHANGED <<cur_executed, cur_committed, cur_body_exc, cur_exc, not_cur_vars>>

\* database.py:28 raises: conn is None at lines 32 and 36
CursorConnectFails ==
    /\ cur_pc = "call"
    /\ Leave(<<"connect!">>, ConnectError)
    /\ UNCHANGED <<cur_executed, cur_body, cur_body_exc, not_cur_vars>>

\* database.py:58 raises, outside the try of line 59
CursorCreateFails ==
    /\ cur_pc = "call"
    /\ Leave(<<"connect", "cursor!">> \o ConnectionExit(CursorError), CursorError)
    /\ UNCHANGED <<cur_executed, cur_body, cur_body_exc, not_cur_vars>>

\* the with-body: cursor.execute of one statement
BodyExecute ==
    /\ cur_pc = "body"
    /\ Len(cur_executed) < MaxStatements
    /\ \E stmt \in Statements : cur_executed' = Append(cur_executed, stmt)
    /\ cur_calls' = Append(cur_calls, "execute")
    /\ UNCHANGED <<cur_pc, cur_conn, cur_cursor, cur_tx, cur_committed, cur_body,
                   cur_body_exc, cur_exc, not_cur_vars>>

\* the with-body ends; database.py:61, 65-66 and 35-37
BodyReturns ==
    /\ cur_pc = "body"
    /\ LET exit == CursorExit(NoExc, FALSE)
       IN  Leave(exit.calls \o ConnectionExit(exit.exc), exit.exc)
    /\ cur_body' = "returned"
    /\ UNCHANGED <<cur_executed, cur_body_exc, not_cur_vars>>

\* the with-body ends and conn.commit() raises; database.py:61-66 and 30-37
BodyReturnsCommitFails ==
    /\ cur_pc = "body"
    /\ LET exit == CursorExit(NoExc, TRUE)
       IN  Leave(exit.calls \o ConnectionExit(exit.exc), exit.exc)
    /\ cur_body' = "returned"
    /\ UNCHANGED <<cur_executed, cur_body_exc, not_cur_vars>>

\* the with-body raises; database.py:62-66 and 30-37
BodyRaises ==
    /\ cur_pc = "body"
    /\ \E e \in BodyErrors :
          /\ cur_body_exc' = e
          /\ cur_calls' = cur_calls
                \o (IF e = ExecuteError THEN <<"execute!">> ELSE <<>>)
                \o CursorExit(e, FALSE).calls
                \o ConnectionExit(CursorExit(e, FALSE).exc)
          /\ LET st == Driver(CursorExit(e, FALSE).calls
                                \o ConnectionExit(CursorExit(e, FALSE).exc),
                              DriverState)
             IN  /\ cur_conn' = st.conn
                 /\ cur_cursor' = st.cursor
                 /\ cur_tx' = st.tx
                 /\ cur_committed' = st.committed
          /\ cur_exc' = CursorExit(e, FALSE).exc
    /\ cur_pc' = "raised"
    /\ cur_body' = "raised"
    /\ UNCHANGED <<cur_executed, not_cur_vars>>

NextCursor ==
    \/ CursorEnter
    \/ CursorConnectFails
    \/ CursorCreateFails
    \/ BodyExecute
    \/ BodyReturns
    \/ BodyReturnsCommitFails
    \/ BodyRaises

SpecCursor == InitCursor /\ [][NextCursor]_vars

\* the block was left
CursorLeft == cur_pc \in {"done", "raised"}

\* call c was made, and before every call of d
CalledBefore(c, d) ==
    /\ \E k \in 1..Len(cur_calls) : cur_calls[k] = c
    /\ \A j, k \in 1..Len(cur_calls) :
          (cur_calls[j] = c /\ cur_calls[k] = d) => j < k

\* the cursor, if one was made, is closed and then the connection is closed
ClosedInOrder ==
    /\ cur_conn = "closed"
    /\ cur_calls[Len(cur_calls)] = "conn.close"
    /\ cur_cursor # "open"
    /\ cur_cursor = "closed" => CalledBefore("cursor.close", "conn.close")

\* connecting failed: the error propagates, no rollback and no close
ConnectFailure ==
    (CursorLeft /\ cur_conn = "none") =>
        /\ cur_exc = ConnectError
        /\ cur_calls = <<"connect!">>

C21_WitnessCommitted ==
    /\ cur_pc = "done"
    /\ cur_committed = <<"insert", "update">>
    /\ cur_calls[Len(cur_calls) - 1] = "cursor.close"

\* the with-body was interrupted: no rollback call, the close discards
C21_WitnessInterrupted ==
    /\ cur_pc = "raised"
    /\ cur_exc = InterruptInBody
    /\ cur_executed # <<>>
    /\ cur_tx = "discarded"

(***************************************************************************)
(* ASUEventsScraper.fetch_all_events (src/utils/scraper.py:78-122)         *)
(***************************************************************************)
\* scraper.py:90, the limit of every request
PageLimit == 40
\* number of requests after which the API has nothing more to give
MaxRequests == 4

\* an item of a response: a date separator or an event
Separator == [listingSeparator |-> "true", id |-> 0]
EventItem(n) == [listingSeparator |-> "absent", id |-> n]

\* a response with seps separators and then real data, numbered from first
Response(seps, real, first) ==
    [k \in 1..(seps + real) |-> IF k <= seps THEN Separator ELSE EventItem(first + k)]

\* what the API sends for the request at offset first: nothing, full pages
\* and short pages, of data, of separators and of both
Responses(first) ==
    { Response(sh[1], sh[2], first) :
        sh \in { <<0, 0>>, <<0, PageLimit>>, <<1, PageLimit - 1>>,
                 <<PageLimit, 0>>, <<1, 0>>, <<0, 2>>, <<1, 2>> } }

\* scraper.py:100: e.get('listingSeparator') != 'true'
ActualEvents(data) ==
    LET IsActual(e) == e.listingSeparator # "true"
    IN  SelectSeq(data, IsActual)

\* scraper.py:112: max_events and len(all_events) >= max_events
MaxReached(all, max_events) ==
    max_events # NoneMax /\ max_events # 0 /\ Len(all) >= max_events

\* a variant of line 113 that keeps the whole list
KeepAll(all, max_events) == all

\* scraper.py:113: all_events[:max_events], for a positive max_events
Truncate(all, max_events) ==
    SubSeq(all, 1, IF max_events < Len(all) THEN max_events ELSE Len(all))

\* a variant of line 116 that stops at every short page
AnyShortPage(data, consecutive_empty) == Len(data) < PageLimit

\* scraper.py:116
ShortPageStop(data, consecutive_empty) ==
    Len(data) < PageLimit /\ consecutive_empty > 0

\* scraper.py:96-120: one turn of the loop on the response; stop
\* says that a break was taken
LoopBody(all, range_start, consecutive_empty, data, max_events) ==
    LET actual == ActualEvents(data)
        empties == IF actual = <<>> THEN consecutive_empty + 1 ELSE 0
        extended == IF actual = <<>> THEN all ELSE all \o actual
        out(a, r, s) ==
            [all_events |-> a, range_start |-> r, consecutive_empty |-> empties,
             stop |-> s]
    IN  IF data = <<>>
        THEN [all_events |-> all, range_start |-> range_start,
              consecutive_empty |-> consecutive_empty, stop |-> TRUE]
        ELSE IF actual = <<>> /\ empties >= 3 THEN out(extended, range_start, TRUE)
        ELSE IF MaxReached(extended, max_events)
             THEN out(Truncate(extended, max_events), range_start, TRUE)
        ELSE IF ShortPageStop(data, empties) THEN out(extended, range_start, TRUE)
        ELSE out(extended, range_start + PageLimit, FALSE)

MaxEventsInputs == {NoneMax, 0, 1, 2, PageLimit, PageLimit + 1, 2 * PageLimit}

InitScrape ==
    /\ sc_max_events \in MaxEventsInputs
    /\ sc_pc = "fetch"
    /\ sc_all_events = <<>>
    /\ sc_range_start = 0
    /\ sc_consecutive_empty = 0
    /\ sc_requests = <<>>
    /\ sc_pages = <<>>
    /\ OldIdle
    /\ WalkIdle
    /\ CursorIdle
    /\ OfficersIdle
    /\ StudentsIdle

\* the loop turns once on what fetch_events returned
Turn(failed, data) ==
    LET out == LoopBody(sc_all_events, sc_range_start, sc_consecutive_empty,
                        data, sc_max_events)
    IN  /\ sc_requests' = Append(sc_requests, sc_range_start)
        /\ sc_pages' = Append(sc_pages, [failed |-> failed, data |-> data])
        /\ sc_all_events' = out.all_events
        /\ sc_range_start' = out.range_start
        /\ sc_consecutive_empty' = out.consecutive_empty
        /\ sc_pc' = IF out.stop THEN "done" ELSE "fetch"
        /\ UNCHANGED <<sc_max_events, not_sc_vars>>

\* scraper.py:94 with 67-69, then 96-120: the API answers with a list
FetchData ==
    /\ sc_pc = "fetch"
    /\ \E data \in Responses(sc_range_start) :
          /\ Len(sc_requests) >= MaxRequests => data = <<>>
          /\ Turn(FALSE, data)

\* scraper.py:94 with 71-76, then 96-98: the request or the decoding fails
FetchFails ==
    /\ sc_pc = "fetch"
    /\ Turn(TRUE, <<>>)

NextScrape == FetchData \/ FetchFails

SpecScrape == InitScrape /\ [][NextScrape]_vars

\* the while loop keeps running until it breaks
SpecScrapeFair == SpecScrape /\ WF_vars(NextScrape)

\* the items of a response that are no separators
NonSeparators(data) ==
    LET Real(e) == e.listingSeparator # "true"
    IN  SelectSeq(data, Real)

\* the non-separator items of the responses, in the order received
RECURSIVE Collected(_)
Collected(pages) ==
    IF pages = <<>> THEN <<>>
    ELSE NonSeparators(Head(pages).data) \o Collected(Tail(pages))

\* C22: for a positive max_events at most max_events events are returned;
\* for max_events=None every non-separator item of every page fetched is
\* returned, in the order received.
C22_AtMostMaxAndComplete ==
    sc_pc = "done" =>
        /\ sc_max_events > 0 => Len(sc_all_events) <= sc_max_events
        /\ sc_max_events = NoneMax => sc_all_events = Collected(sc_pages)

\* two full pages fetched for max_events=41: 41 of the 80 events returned
C22_Witness ==
    /\ sc_pc = "done"
    /\ sc_max_events = PageLimit + 1
    /\ Len(sc_pages) = 2
    /\ Len(Collected(sc_pages)) = 2 * PageLimit
    /\ Len(sc_all_events) = PageLimit + 1

\* max_events=None: a short page, a page with a separator, an empty page
C22_WitnessNone ==
    /\ sc_pc = "done"
    /\ sc_max_events = NoneMax
    /\ Len(sc_pages) = 3
    /\ Len(sc_pages[1].data) = 2
    /\ Len(sc_pages[2].data) = PageLimit
    /\ Len(sc_all_events) = PageLimit + 1

\* response k holds separators only
SeparatorsOnly(k) ==
    sc_pages[k].data # <<>> /\ NonSeparators(sc_pages[k].data) = <<>>

\* max_events is positive and that many events were received
Enough == sc_max_events > 0 /\ Len(Collected(sc_pages)) >= sc_max_events

\* the requests are for 0, 40, 80, ...; after an empty or failed response,
\* after a third separator-only page in a row and once enough events are
\* collected the loop has stopped; after a short page with real events, not
\* yet enough, it goes on
ScrapeSteps ==
    /\ \A k \in 1..Len(sc_requests) : sc_requests[k] = PageLimit * (k - 1)
    /\ Len(sc_requests) = Len(sc_pages)
    /\ sc_pages # <<>> =>
          LET n == Len(sc_pages)
          IN  /\ sc_pages[n].data = <<>> => sc_pc = "done"
              /\ (n >= 3 /\ \A k \in (n - 2)..n : SeparatorsOnly(k)) => sc_pc = "done"
              /\ Enough => sc_pc = "done"
              /\ ( /\ NonSeparators(sc_pages[n].data) # <<>>
                   /\ Len(sc_pages[n].data) < PageLimit
                   /\ ~Enough ) => sc_pc = "fetch"

\* C28: with an API that in the end returns an empty response or fails,
\* fetch_all_events terminates; it also stops at the third separator-only
\* page in a row and when max_events is positive and reached; the offsets
\* requested are 0, 40, 80, ... in this order; a page shorter than the
\* limit that holds real events does not stop the loop.
C28_TerminatesAndWalksOffsets == [](ScrapeSteps) /\ <>(sc_pc = "done")

\* a short page with events at offset 0, then offsets 40 and 80
C28_Witness ==
    /\ sc_pc = "done"
    /\ sc_requests = <<0, PageLimit, 2 * PageLimit>>
    /\ Len(sc_pages[1].data) = 2
    /\ Len(NonSeparators(sc_pages[1].data)) = 2
    /\ sc_pages[3].failed

\* three separator-only pages in a row end the loop
C28_WitnessSeparators ==
    /\ sc_pc = "done"
    /\ Len(sc_pages) = 3
    /\ \A k \in 1..3 : SeparatorsOnly(k) /\ Len(sc_pages[k].data) = PageLimit

(***************************************************************************)
(* assign_officers (src/database/generate_students.py:278-353)             *)
(***************************************************************************)
\* generate_students.py:301, random.randint(6, 15)
MinOfficers == 6
MaxOfficers == 15
\* generate_students.py:304, the most officer positions of one student
MaxPositions == 3

\* generate_students.py:65-70: the titles with count 1, in the order of the dict
OfficerTitles ==
    <<"president", "vice_president", "treasurer", "secretary", "events_coordinator">>

\* a variant of lines 315-327 that gives the fifth title to nobody
TitleOfFirstFour(i) == IF i < Len(OfficerTitles) THEN OfficerTitles[i] ELSE "officer"

\* generate_students.py:315-327: the title of the i-th selected officer
TitleOf(i) == IF i <= Len(OfficerTitles) THEN OfficerTitles[i] ELSE "officer"

\* a variant of line 304 that lets a student with three positions through
EligibleMembersUpTo(members, count) ==
    LET IsEligible(m) == count[m] <= MaxPositions
    IN  SelectSeq(members, IsEligible)

\* generate_students.py:304
EligibleMembers(members, count) ==
    LET IsEligible(m) == count[m] < MaxPositions
    IN  SelectSeq(members, IsEligible)

\* generate_students.py:302-307, for the number random.randint gave
NumOfficers(draw, members, eligible) ==
    LET n == IF draw < Len(members) THEN draw ELSE Len(members)
    IN  IF Len(eligible) < n THEN Len(eligible) ELSE n

\* generate_students.py:312: random.sample picks k positions of the list;
\* the orders drawn are the order of the list and its reverse
Samples(eligible, k) ==
    LET positions == [i \in 1..Len(eligible) |-> i]
        picks(P) ==
            LET In(i) == i \in P
                idx == SelectSeq(positions, In)
            IN  [j \in 1..k |-> eligible[idx[j]]]
        reversed(q) == [j \in 1..Len(q) |-> q[Len(q) + 1 - j]]
    IN  UNION { {picks(P), reversed(picks(P))} :
                  P \in {Q \in SUBSET (1..Len(eligible)) : Cardinality(Q) = k} }

\* generate_students.py:314-327: the tuples appended for one organization
TitledOfficers(selected, org_id) ==
    [i \in 1..Len(selected) |->
        [student_id |-> selected[i], org_id |-> org_id, officer_title |-> TitleOf(i)]]

\* generate_students.py:320 and 326: one more position for every selection
CountAfter(count, selected) ==
    [m \in Students |->
        count[m] + Cardinality({i \in 1..Len(selected) : selected[i] = m})]

\* org_members dicts: four organizations with the same six members; one of
\* eight members, one of two, one of none and one whose list repeats a
\* member; four of the same seven members and one of one
OrgOf(id, members) == [org_id |-> id, members |-> members]
FirstMembers(n) ==
    SubSeq(<<"s1", "s2", "s3", "s4", "s5", "s6", "s7", "s8">>, 1, n)
OrgMembersInputs ==
    { <<OrgOf(1, FirstMembers(6)), OrgOf(2, FirstMembers(6)),
        OrgOf(3, FirstMembers(6)), OrgOf(4, FirstMembers(6))>>,
      <<OrgOf(1, FirstMembers(8)), OrgOf(2, FirstMembers(2)), OrgOf(3, <<>>),
        OrgOf(4, <<"s1">> \o FirstMembers(6))>>,
      <<OrgOf(1, FirstMembers(7)), OrgOf(2, FirstMembers(7)),
        OrgOf(3, FirstMembers(7)), OrgOf(4, FirstMembers(7)),
        OrgOf(5, FirstMembers(1))>> }

InitOfficers ==
    /\ of_org_members \in OrgMembersInputs
    /\ of_pc = "loop"
    /\ of_next = 1
    /\ of_assignments = <<>>
    /\ of_count = [m \in Students |-> 0]
    /\ of_log = <<>>
    /\ of_db = {}
    /\ of_return = 0
    /\ OldIdle
    /\ WalkIdle
    /\ CursorIdle
    /\ ScrapeIdle
    /\ StudentsIdle

\* the loop of line 297 goes to its next item, or ends
NextOrg ==
    /\ of_next' = of_next + 1
    /\ of_pc' = IF of_next = Len(of_org_members) THEN "insert" ELSE "loop"

\* generate_students.py:298-299
OfficersNoMembers ==
    /\ of_pc = "loop"
    /\ of_org_members[of_next].members = <<>>
    /\ of_log' = Append(of_log, [org_id |-> of_org_members[of_next].org_id,
                                 eligible |-> 0, created |-> 0])
    /\ NextOrg
    /\ UNCHANGED <<of_org_members, of_assignments, of_count, of_db, of_return,
                   not_of_vars>>

\* generate_students.py:301-327
OfficersAssign ==
    /\ of_pc = "loop"
    /\ of_org_members[of_next].members # <<>>
    /\ LET org == of_org_members[of_next]
           eligible == EligibleMembers(org.members, of_count)
       IN  \E draw \in MinOfficers..MaxOfficers :
           \E selected \in Samples(eligible, NumOfficers(draw, org.members, eligible)) :
              /\ of_assignments' =
                    of_assignments \o TitledOfficers(selected, org.org_id)
              /\ of_count' = CountAfter(of_count, selected)
              /\ of_log' = Append(of_log, [org_id |-> org.org_id,
                                           eligible |-> Len(eligible),
                                           created |-> Len(selected)])
    /\ NextOrg
    /\ UNCHANGED <<of_org_members, of_db, of_return, not_of_vars>>

\* generate_students.py:336-339 and 350-353: the rows are written and
\* committed; a statement with the same (student_id, org_id) twice is one the
\* database rejects
OfficersInsert ==
    /\ of_pc = "insert"
    /\ \A i, j \in 1..Len(of_assignments) :
          ( /\ of_assignments[i].student_id = of_assignments[j].student_id
            /\ of_assignments[i].org_id = of_assignments[j].org_id ) => i = j
    /\ of_db' = {of_assignments[i] : i \in 1..Len(of_assignments)}
    /\ of_return' = Len(of_assignments)
    /\ of_pc' = "done"
    /\ UNCHANGED <<of_org_members, of_next, of_assignments, of_count, of_log,
                   not_of_vars>>

\* generate_students.py:336-338 raise, then 346-351
OfficersInsertFails ==
    /\ of_pc = "insert"
    /\ of_pc' = "raised"
    /\ UNCHANGED <<of_org_members, of_next, of_assignments, of_count, of_log,
                   of_db, of_return, not_of_vars>>

NextOfficers ==
    OfficersNoMembers \/ OfficersAssign \/ OfficersInsert \/ OfficersInsertFails

SpecOfficers == InitOfficers /\ [][NextOfficers]_vars

\* the assignments made for the organization org_id, in the order made
OfficersOf(org_id) ==
    LET ForOrg(a) == a.org_id = org_id
    IN  SelectSeq(of_assignments, ForOrg)

\* the organizations student m is an officer of
OfficeOrgs(m) ==
    {of_assignments[i].org_id :
        i \in {j \in 1..Len(of_assignments) : of_assignments[j].student_id = m}}

\* the member list given for the organization org_id
MembersOf(org_id) ==
    LET k == CHOOSE j \in 1..Len(of_org_members) : of_org_members[j].org_id = org_id
    IN  of_org_members[k].members

IsIn(m, list) == \E i \in 1..Len(list) : list[i] = m

\* C23: no student is an officer of more than 3 organizations, and every
\* officer assignment is for a student in the member list of its
\* organization; so for the rows committed.
C23_AtMostThreeOrgsAndMembers ==
    /\ \A m \in Students : Cardinality(OfficeOrgs(m)) <= 3
    /\ \A i \in 1..Len(of_assignments) :
          IsIn(of_assignments[i].student_id, MembersOf(of_assignments[i].org_id))
    /\ of_pc = "done" =>
          /\ \A m \in Students :
                Cardinality({r.org_id : r \in {q \in of_db : q.student_id = m}}) <= 3
          /\ \A r \in of_db : IsIn(r.student_id, MembersOf(r.org_id))

\* a student with three offices is a member of a fourth organization, which
\* got officers, and is none of them
C23_Witness ==
    /\ of_pc = "done"
    /\ \E m \in Students, k \in 1..Len(of_org_members) :
          /\ Cardinality(OfficeOrgs(m)) = 3
          /\ IsIn(m, of_org_members[k].members)
          /\ of_org_members[k].org_id \notin OfficeOrgs(m)
          /\ OfficersOf(of_org_members[k].org_id) # <<>>

\* how many of the list satisfy: assignments with this title
TitleCount(rows, title) ==
    Cardinality({i \in 1..Len(rows) : rows[i].officer_title = title})

FiveTitles ==
    {"president", "vice_president", "treasurer", "secretary", "events_coordinator"}

EligibleThen(k) ==
    LET members == of_org_members[k].members
        before == {of_org_members[j].org_id : j \in 1..(k - 1)}
        offices(m) ==
            Cardinality({i \in 1..Len(of_assignments) :
                            /\ of_assignments[i].student_id = m
                            /\ of_assignments[i].org_id \in before})
    IN  Cardinality({i \in 1..Len(members) : offices(members[i]) < 3})

Least(a, b) == IF a < b THEN a ELSE b

C24_WitnessNoneEligible ==
    /\ of_pc = "done"
    /\ Len(of_org_members) = 4
    /\ Len(of_org_members[4].members) = 6
    /\ EligibleThen(4) = 0
    /\ OfficersOf(4) = <<>>

(***************************************************************************)
(* generate_students (src/database/generate_students.py:93-162)            *)
(***************************************************************************)
\* largest count asked for
MaxStudents == 3

\* generate_students.py:122: '1' and nine digits; the ids drawn differ in
\* their last three digits
IdPool ==
    { <<"1", "0", "0", "0", "0", "0", "0">> \o <<h>> \o tail :
        h \in {"0", "1", "2"}, tail \in {<<"1", "2">>, <<"3", "4">>} }
FirstNames == {"Emma", "Liam"}
LastNames == {"Smith"}
Years == {1, 5}

\* str.lower() on the names
LowerName(n) ==
    CASE n = "Emma" -> "emma"
      [] n = "Liam" -> "liam"
      [] n = "Smith" -> "smith"

\* generate_students.py:109-112: the names in lower case, the last two
\* digits of the id, the domain
generate_email(first_name, last_name, student_id) ==
    <<LowerName(first_name), ".", LowerName(last_name)>>
        \o SubSeq(student_id, Len(student_id) - 1, Len(student_id))
        \o <<"@asu.edu">>

InitStudents ==
    /\ st_count \in 0..MaxStudents
    /\ st_pc = "id"
    /\ st_students = <<>>
    /\ st_used_ids = {}
    /\ st_used_emails = {}
    /\ st_student_id = <<>>
    /\ st_first_name = ""
    /\ st_last_name = ""
    /\ OldIdle
    /\ WalkIdle
    /\ CursorIdle
    /\ ScrapeIdle
    /\ OfficersIdle

\* generate_students.py:139-144: the loop draws until the id is a new one
DrawStudentId ==
    /\ st_pc = "id"
    /\ Len(st_students) < st_count
    /\ \E id \in IdPool \ st_used_ids :
          /\ st_student_id' = id
          /\ st_used_ids' = st_used_ids \cup {id}
    /\ st_pc' = "name"
    /\ UNCHANGED <<st_count, st_students, st_used_emails, st_first_name,
                   st_last_name, not_st_vars>>

\* generate_students.py:146-148
ChooseName ==
    /\ st_pc = "name"
    /\ st_first_name' \in FirstNames
    /\ st_last_name' \in LastNames
    /\ st_pc' = "email"
    /\ UNCHANGED <<st_count, st_students, st_used_ids, st_used_emails,
                   st_student_id, not_st_vars>>

\* generate_students.py:151-152 and 155: the email is taken, another id is
\* generated and the loop tries again
EmailTaken ==
    /\ st_pc = "email"
    /\ generate_email(st_first_name, st_last_name, st_student_id) \in st_used_emails
    /\ st_student_id' \in IdPool
    /\ UNCHANGED <<st_count, st_pc, st_students, st_used_ids, st_used_emails,
                   st_first_name, st_last_name, not_st_vars>>

\* generate_students.py:151-154 and 157-160: the email is new
EmailFree ==
    /\ st_pc = "email"
    /\ LET email == generate_email(st_first_name, st_last_name, st_student_id)
       IN  /\ email \notin st_used_emails
           /\ st_used_emails' = st_used_emails \cup {email}
           /\ \E year \in Years :
                 st_students' =
                     Append(st_students,
                            [student_id |-> st_student_id,
                             full_name |-> <<st_first_name, " ", st_last_name>>,
                             email |-> email,
                             major |-> "Computer Science",
                             year |-> year])
    /\ st_pc' = "id"
    /\ UNCHANGED <<st_count, st_used_ids, st_student_id, st_first_name,
                   st_last_name, not_st_vars>>

\* generate_students.py:139 and 162: the loop is over
StudentsReturn ==
    /\ st_pc = "id"
    /\ Len(st_students) = st_count
    /\ st_pc' = "done"
    /\ UNCHANGED <<st_count, st_students, st_used_ids, st_used_emails,
                   st_student_id, st_first_name, st_last_name, not_st_vars>>

NextStudents ==
    DrawStudentId \/ ChooseName \/ EmailTaken \/ EmailFree \/ StudentsReturn

SpecStudents == InitStudents /\ [][NextStudents]_vars

\* C25: generate_students returns count tuples with pairwise distinct
\* student_ids and pairwise distinct emails, also after an email collision
\* made it generate the student_id again.
C25_DistinctIdsAndEmails ==
    st_pc = "done" =>
        /\ Len(st_students) = st_count
        /\ \A i, j \in 1..Len(st_students) :
              i # j =>
                  /\ st_students[i].student_id # st_students[j].student_id
                  /\ st_students[i].email # st_students[j].email

\* what holds of the returned list: the count and the emails
StudentsCountAndEmails ==
    st_pc = "done" =>
        /\ Len(st_students) = st_count
        /\ \A i, j \in 1..Len(st_students) :
              i # j => st_students[i].email # st_students[j].email

====
